---------------------------- MODULE Spec2Model ----------------------------
(***************************************************************************)
(* A state-machine model of src/src/content.js, the content script of the  *)
(* GCal Popup Editor: detection of quick popups and injection of one       *)
(* overlay per popup, the overlay's dirty tracking, the save handler that  *)
(* drives the host editor, the route and scroll restoration, the           *)
(* PendingRestore record in sessionStorage, waitFor and the prompt watcher.*)
(*                                                                         *)
(* Conventions.  Texts are sequences of one-character strings so that      *)
(* trim() can be computed.  JavaScript runs one task at a time: `turn'     *)
(* names the async function that continues in the current task (a promise  *)
(* that was already resolved continues in a microtask, before any timer,   *)
(* user or host task); 0 means the event loop is free.  Timers fire when   *)
(* they are due in the page specifications, where a wait is counted in     *)
(* polling periods; SpecWait has a clock, and a timer there runs when it   *)
(* is due or up to MaxLate later, as setTimeout promises no more than a    *)
(* minimum delay.                                                          *)
(***************************************************************************)
EXTENDS Integers, Sequences, FiniteSets, TLC

\* ---------------------------------------------------------------- bounds
NumPopups == 2
MaxOverlays == NumPopups + 1
MaxClears == 1
TitleTimeout == 1
SaveTimeout == 1
IdleMaxWait == 3
ScrollTries == 2
BootTries == 2
ScrollerTimeout == 1
LockTicks == 1
MaxDetect == 2
MaxDialogs == 2
MaxTimeout == 3
MaxInterval == 2
MaxLate == 2
MinQuiet == 1

Popups == 1..NumPopups
Overlays == 1..MaxOverlays
BootTurn == 0 - 1

\* The sizes of line 684, in pixels.
MinBarWidth == 20
MinBarHeight == 6

\* ------------------------------------------------------------ value sets
Null == "null"
Routes == {"/r/week", "/r/day"}
\* A route with a fragment: pathname + search of "/r/week", hash "#a".
HashRoute == "/r/week#a"
HashRoutes == Routes \cup {HashRoute}
hasFragment(r) == r = HashRoute
pathOf(r) == IF r = HashRoute THEN "/r/week" ELSE r
\* An optional number: <<>> is JavaScript's null, <<n>> the number n.
NullTop == <<>>
Num(n) == <<n>>
isNumber(x) == x # NullTop
ScrollTops == {0, 40}
WinTops == {0, 8}
Titles == {<<>>, <<"a">>, <<"b">>}
NoHeading == [has |-> FALSE, text |-> <<>>]
Headings ==
  {NoHeading} \cup {[has |-> TRUE, text |-> t] : t \in {<<" ", "a">>, <<" ">>}}

\* ------------------------------------------------------------- pure code
RECURSIVE trimStart(_)
trimStart(s) ==
  IF s = <<>> THEN <<>>
  ELSE IF Head(s) = " " THEN trimStart(Tail(s)) ELSE s

RECURSIVE trimEnd(_)
trimEnd(s) ==
  IF s = <<>> THEN <<>>
  ELSE IF s[Len(s)] = " " THEN trimEnd(SubSeq(s, 1, Len(s) - 1)) ELSE s

trim(s) == trimEnd(trimStart(s))

\* extractTitleFromPopup: the trimmed text of the popup's heading, or ''.
extractTitleFromPopup(h) == IF h.has THEN trim(h.text) ELSE <<>>

\* a || b on strings: the empty string is falsy.
OrElse(a, b) == IF a # <<>> THEN a ELSE b

\* ------------------------------------------------------- overlay records
StatusOpening == "Opening editor..."
StatusUpdating == "Updating title..."
StatusSaving == "Saving..."
StatusRestoring == "Restoring view..."
StatusSaved == "Saved"
StatusReloaded == "Reloaded from popup"
\* new Error('Timeout'), line 74, and `Error: ${e.message}`, line 422.
TimeoutMessage == "Timeout"
ErrorStatus(message) == "Error: " \o message
StatusNone == ""

Free ==
  [live |-> "free", popup |-> 0, title |-> <<>>, baseline |-> <<>>,
   saveDisabled |-> TRUE, titleDisabled |-> FALSE, spinner |-> FALSE,
   collapsed |-> FALSE, status |-> StatusNone, clears |-> 0,
   pc |-> "idle", elapsed |-> 0, i |-> 0,
   routeSnap |-> Null, scrollSnap |-> [primaryTop |-> <<>>, win |-> 0],
   opened |-> <<>>, softCur |-> Null, softRet |-> Null,
   watcher |-> "none", last |-> 0, idleRet |-> "none", wrote |-> Null]

dirty(u) == u.title # u.baseline

updateDirty(u) == [u EXCEPT !.saveDisabled = ~dirty(u)]

setStatus(u, msg) == [u EXCEPT !.status = msg]

\* setSaving without `!!isSaving ||' in the save button's state.
setSavingLeavesButton(u, isSaving) ==
  [u EXCEPT !.spinner = isSaving,
            !.titleDisabled = isSaving,
            !.saveDisabled = ~dirty(u)]

setSaving(u, isSaving) ==
  [u EXCEPT !.spinner = isSaving,
            !.titleDisabled = isSaving,
            !.saveDisabled = isSaving \/ ~dirty(u)]

\* markSaved without the assignment to baseline.title.
markSavedKeepsBaseline(u) == updateDirty(u)

markSaved(u) == updateDirty([u EXCEPT !.baseline = u.title])

setCollapsed(u, c) == [u EXCEPT !.collapsed = c]

createEditorUI(initialTitle, p) ==
  setCollapsed(
    updateDirty([Free EXCEPT !.live = "attached", !.popup = p,
                             !.title = initialTitle,
                             !.baseline = initialTitle]),
    FALSE)

VARIABLES
  bootPc, bootI, bootElapsed, bootSnap, observing, turn,
  ov, popupShown, heading,
  address, editor, editorValue, scrollTop, winTop, ss, locks,
  detected, dialogs, clicked, wf

\* detected[p] counts the times popup p was handed to injectEditorIntoPopup
\* since the page loaded or p's overlay was last removed (a history
\* variable, it stops counting at MaxDetect).  dialogs holds the other
\* div[role=dialog] and div[role=region] elements of the document, in
\* document order; clicked is what the last run of a prompt watcher's
\* callback clicked.  wf is one call of waitFor with its clock.
pageVars ==
  <<bootPc, bootI, bootElapsed, bootSnap, observing, turn,
    ov, popupShown, heading,
    address, editor, editorValue, scrollTop, winTop, ss, locks,
    detected, dialogs, clicked>>

vars == <<pageVars, wf>>

\* ------------------------------------------------------------- host reads
\* findQuickPopupDialogs(): the visible, narrow role=dialog nodes, in
\* document order.
findQuickPopupDialogs == {p \in Popups : popupShown[p]}

\* popup.querySelector('.gpe-host'): an overlay host under the popup.
hasHost(S, p) == \E o \in Overlays : S[o].live = "attached" /\ S[o].popup = p

hostCount(S, p) ==
  Cardinality({o \in Overlays : S[o].live = "attached" /\ S[o].popup = p})

inFlight(u) ==
  u.pc \in {"titleWait", "saveWait", "idleWait", "routeSettle", "routeCheck",
            "scrollRetry"}

\* An overlay whose host left the document and that runs no save attempt
\* can no longer act or be acted on: its slot is reused.
gc(S) ==
  [o \in Overlays |->
     IF S[o].live = "detached" /\ ~inFlight(S[o]) THEN Free ELSE S[o]]

hasFree(S) == \E o \in Overlays : S[o].live = "free"
freeSlot(S) ==
  CHOOSE o \in Overlays :
    S[o].live = "free" /\ \A q \in Overlays : S[q].live = "free" => o <= q

\* injectEditorIntoPopup without its guard on an overlay host in the popup.
injectWithoutGuard(S, p, h) ==
  [S EXCEPT ![freeSlot(S)] = createEditorUI(extractTitleFromPopup(h), p)]

\* injectEditorIntoPopup, lines 337-350, on popup p whose heading is h: the
\* guard, createEditorUI and appendChild (the handlers it registers are the
\* actions below).
injectEditorIntoPopup(S, p, h) ==
  IF hasHost(S, p) THEN S
  ELSE [S EXCEPT ![freeSlot(S)] = createEditorUI(extractTitleFromPopup(h), p)]

\* try { injectEditorIntoPopup(d); } catch (e) { warn(...) }, lines 747 and
\* 758; throws: the call throws, which it can do only before it appends
\* the host (line 350).
tryInject(S, p, h, throws) ==
  IF throws THEN S ELSE injectEditorIntoPopup(S, p, h)

\* The forEach with no try/catch in its callback: the first call that
\* throws ends it.
RECURSIVE injectAllUncaught(_, _, _, _)
injectAllUncaught(S, ps, lo, broken) ==
  IF lo > NumPopups THEN S
  ELSE IF lo \in ps
    THEN IF lo \in broken THEN S
         ELSE injectAllUncaught(injectEditorIntoPopup(S, lo, heading[lo]),
                                ps, lo + 1, broken)
  ELSE injectAllUncaught(S, ps, lo + 1, broken)

\* dialogs.forEach(d => { try { injectEditorIntoPopup(d); } catch ... })
\* over the popups ps from lo on, in document order; broken holds the
\* popups on which injectEditorIntoPopup throws.
RECURSIVE injectAll(_, _, _, _)
injectAll(S, ps, lo, broken) ==
  IF lo > NumPopups THEN S
  ELSE IF lo \in ps
    THEN injectAll(tryInject(S, lo, heading[lo], lo \in broken),
                   ps, lo + 1, broken)
  ELSE injectAll(S, ps, lo + 1, broken)

\* There is an overlay slot for each popup of ps.
roomFor(S, ps) ==
  Cardinality(ps) <= Cardinality({o \in Overlays : S[o].live = "free"})

\* The history of detections.
noteDetected(D, ps) ==
  [p \in Popups |-> IF p \in ps /\ D[p] < MaxDetect THEN D[p] + 1 ELSE D[p]]
forgetDetected(D, ps) == [p \in Popups |-> IF p \in ps THEN 0 ELSE D[p]]

\* findPrimaryCalendarScroller(): scrollTop is NullTop when none is found.
findPrimaryCalendarScroller == isNumber(scrollTop)

\* snapshotRoute, snapshotCalendarScroll
snapshotRoute == address
snapshotCalendarScroll == [primaryTop |-> scrollTop, win |-> winTop]

\* waitFor's tick, lines 67-76: res is what conditionFn returned ("throw"
\* when it threw), elapsed is Date.now() - start.
Truthy(res) == res \notin {"falsy", "throw"}

\* tick with `>' for `>=' in the test of the elapsed time.
waitForTickStrict(res, elapsed, timeout) ==
  IF Truthy(res) THEN "resolve"
  ELSE IF elapsed > timeout THEN "reject"
  ELSE "again"

\* tick without the try/catch around conditionFn().
waitForTickUncaught(res, elapsed, timeout) ==
  IF res = "throw" THEN "raise"
  ELSE IF Truthy(res) THEN "resolve"
  ELSE IF elapsed >= timeout THEN "reject"
  ELSE "again"

waitForTick(res, elapsed, timeout) ==
  IF Truthy(res) THEN "resolve"
  ELSE IF elapsed >= timeout THEN "reject"
  ELSE "again"

\* JSON.stringify / JSON.parse of the PendingRestore payload; the text is
\* kept as its sequence of member values, and t (Date.now()) is left out:
\* nothing reads it.
NoRecord == <<>>
JSONstringify(payload) == <<payload.url, payload.primaryTop, payload.win>>
JSONparse(raw) == [url |-> raw[1], primaryTop |-> raw[2], win |-> raw[3]]

ScrollStates == {NullTop} \cup {Num(n) : n \in ScrollTops}
NoSnap == [primaryTop |-> NullTop, win |-> 0]
Abs(n) == IF n < 0 THEN 0 - n ELSE n

\* The iteration without the typeof test of line 533.
restoredTopUnguarded(top, snap) == IF isNumber(top) THEN snap.primaryTop ELSE top

\* The iteration without the assignment of line 534.
restoredTopSkips(top, snap) == top

\* primary.scrollTop = snap.primaryTop, guarded as in lines 532-535.
restoredTop(top, snap) ==
  IF isNumber(top) /\ isNumber(snap.primaryTop) THEN snap.primaryTop ELSE top

\* lockCalendarScroll's handler, lines 544-549: the offset it leaves.
lockedTop(top, target) ==
  IF isNumber(top) /\ Abs(top[1] - target) > 2 THEN Num(target) ELSE top

\* lockCalendarScroll(targetTop, ms): the first handler() call and the
\* interval, kept as the lock's target and its remaining ticks.
newLock(target) == [target |-> target, left |-> LockTicks]


\* ------------------------------------------------- prompt watcher, pure
\* The i flag of a regular expression, on the letters of the texts below.
UpperCase == <<"A", "B", "C", "D", "E", "F", "G", "H", "I", "J", "K", "L", "M",
               "N", "O", "P", "Q", "R", "S", "T", "U", "V", "W", "X", "Y", "Z">>
LowerCase == <<"a", "b", "c", "d", "e", "f", "g", "h", "i", "j", "k", "l", "m",
               "n", "o", "p", "q", "r", "s", "t", "u", "v", "w", "x", "y", "z">>
toLower(c) ==
  IF \E k \in DOMAIN UpperCase : UpperCase[k] = c
    THEN LowerCase[CHOOSE k \in DOMAIN UpperCase : UpperCase[k] = c]
    ELSE c
toLowerCase(s) == [k \in 1..Len(s) |-> toLower(s[k])]

\* A pattern anchored with ^, and one that is not anchored.
startsWith(s, pat) == Len(s) >= Len(pat) /\ SubSeq(s, 1, Len(pat)) = pat
includes(s, pat) ==
  \E k \in 0..(Len(s) - Len(pat)) : SubSeq(s, k + 1, k + Len(pat)) = pat

\* Array.prototype.find, given the elements that satisfy the test in their
\* order in the array: <<the first of them>>, or <<>>.
find(matching) ==
  IF matching # <<>> THEN <<Head(matching)>> ELSE <<>>

\* The words of line 615 and the patterns of line 623; a character outside
\* ASCII is written as its code point.
WordUpdate == <<"u", "p", "d", "a", "t", "e">>
WordSend == <<"s", "e", "n", "d">>
WordGuest == <<"g", "u", "e", "s", "t">>
JaUpdate == <<"U+66F4", "U+65B0">>
JaSend == <<"U+9001", "U+4FE1">>
JaGuest == <<"U+30B2", "U+30B9", "U+30C8">>
JaSendUpdate == JaUpdate \o <<"U+3092">> \o JaSend
JaSendToGuests == JaGuest \o <<"U+306B">> \o JaSend

promptWords == {WordUpdate, WordSend, WordGuest, JaUpdate, JaSend, JaGuest}

\* /update|send|guest|.../i.test(d.textContent)
looksLikePrompt(text) == \E w \in promptWords : includes(toLowerCase(text), w)

\* rxList.some(rx => rx.test(b.textContent.trim())) for the list of line 623
isSendText(text) ==
  LET t == trim(text)
  IN \/ toLowerCase(t) = WordSend
     \/ t = JaSend
     \/ startsWith(t, JaSendUpdate)
     \/ startsWith(t, JaSendToGuests)

\* d.textContent: the element's own text, then its buttons' labels.
RECURSIVE labelsOf(_)
labelsOf(buttons) ==
  IF buttons = <<>> THEN <<>>
  ELSE Head(buttons).label \o labelsOf(Tail(buttons))
textContent(d) == d.text \o labelsOf(d.buttons)

\* findUpdatePromptDialog, lines 613-617: <<the element>> or <<>> for null.
\* The quick popups are left out of the search: their text, the heading,
\* holds none of the words here.
findUpdatePromptDialog(D) ==
  find(SelectSeq(D, LAMBDA d : d.visible /\ looksLikePrompt(textContent(d))))

\* chooseInDialog(dlg, { action: 'send' }), lines 619-632: <<the button>>
\* or <<>> for null.
chooseInDialog(dlg) ==
  LET buttons == SelectSeq(dlg.buttons, LAMBDA b : b.visible)
      btn == find(SelectSeq(buttons, LAMBDA b : isSendText(b.label)))
      accept == find(SelectSeq(buttons, LAMBDA b : b.accept))
  IN IF btn # <<>> THEN btn
     ELSE IF accept # <<>> THEN accept
     ELSE IF buttons # <<>> THEN <<buttons[1]>>
     ELSE <<>>

\* The callback of armAutoSendUpdatesPrompt's observer, lines 653-658: the
\* clicks it dispatches.
promptCallback(D) ==
  LET dlg == findUpdatePromptDialog(D)
  IN IF dlg = <<>> THEN {}
     ELSE LET btn == chooseInDialog(dlg[1])
          IN IF btn = <<>> THEN {}
             ELSE {[kind |-> dlg[1].kind, label |-> btn[1].label]}

\* A prompt watcher is connected.
armed(S) == \E o \in Overlays : S[o].watcher = "armed"

\* A childList mutation under document.body: the watchers' callbacks run.
onDomMutation(S, D, log) == IF armed(S) THEN promptCallback(D) ELSE log

\* isAnyDialogOpen over the elements of D, lines 608-611.
isAnyDialogOpen(D) == \E k \in 1..Len(D) : D[k].visible

\* findVisibleProgressIndicator, lines 680-685, over the elements bars that
\* match its selector: <<the first visible one above the minimum size>>.
findVisibleProgressIndicator(bars) ==
  find(SelectSeq(SelectSeq(bars, LAMBDA el : el.visible),
                 LAMBDA el : el.width > MinBarWidth \/ el.height > MinBarHeight))

\* The progress indicators a check of the page may find: none, or one that
\* is shown or hidden, at or above the minimum size.
Bars ==
  {<<>>} \cup
  {<<[visible |-> v, width |-> w, height |-> h]>> :
     v \in BOOLEAN, w \in {MinBarWidth, MinBarWidth + 1},
     h \in {MinBarHeight, MinBarHeight + 1}}

\* The wait in waitForCalendarIdle is counted in its sleeps of line 697:
\* u.elapsed is the number of wake-ups so far and start is 0, so the next
\* wake-up is at u.elapsed + 1.  A mutation between two wake-ups happens
\* inside a sleep: Date.now() - last reaches n sleeps at the n-th wake-up
\* after the one that follows the mutation, which is what stamping the
\* mutation with the time of the wake-up that follows it gives.
nextWake(u) == u.elapsed + 1

\* The callback of waitForCalendarIdle's observer, line 689.
idleCallback(u, now) == [u EXCEPT !.last = now]

\* A childList or attribute mutation under document.body, as the observers
\* of the idle waits see it (line 690).
onBodyMutation(S) ==
  [o \in Overlays |->
     IF S[o].pc = "idleWait" THEN idleCallback(S[o], nextWake(S[o])) ELSE S[o]]

\* The loop without the quiet period.
waitForCalendarIdleHasty(now, last, busy) ==
  IF now < IdleMaxWait THEN (IF ~busy THEN "true" ELSE "again") ELSE "false"

\* One pass of the loop of waitForCalendarIdle, lines 693-700, on a wake-up
\* at now: "true", "false", or "again" for another sleep.
waitForCalendarIdle(now, last, busy) ==
  IF now < IdleMaxWait
    THEN IF ~busy /\ now - last >= MinQuiet THEN "true" ELSE "again"
    ELSE "false"

\* The elements the host shows: its confirmation prompt, with the choices in
\* either order or Send alone, a panel that lists the event's guests, shown
\* or hidden, and a notice.
LabelSend == <<"S", "e", "n", "d">>
LabelDontSend == <<"D", "o", "n", "'", "t", " ", "s", "e", "n", "d">>
LabelOk == <<"O", "K">>
Button(label) == [label |-> label, visible |-> TRUE, accept |-> FALSE]
Prompts ==
  {[kind |-> "prompt", visible |-> TRUE, text |-> <<"?">>, buttons |-> b] :
     b \in {<<Button(LabelDontSend), Button(LabelSend)>>,
            <<Button(LabelSend), Button(LabelDontSend)>>,
            <<Button(LabelSend)>>}}
Panels ==
  {[kind |-> "panel", visible |-> v,
    text |-> <<"1", " ", "G", "u", "e", "s", "t">>,
    buttons |-> <<Button(LabelOk)>>] : v \in BOOLEAN}
Notices ==
  {[kind |-> "notice", visible |-> TRUE, text |-> <<"h", "i">>,
    buttons |-> <<Button(LabelOk)>>]}
Elements == Prompts \cup Panels \cup Notices

\* ----------------------------------------------------------- waitFor call
\* One call of waitFor(conditionFn, { timeout, interval }), lines 64-79:
\* start, the pending timer's due time, and what became of the promise;
\* with the history of the evaluations of conditionFn: how many, when the
\* last one was, how late its timer ran, the first truthy value returned,
\* whether every evaluation threw, and whether each evaluation came exactly
\* (exact) or at least (apart) interval after the one before.
NoCall ==
  [pc |-> "none", now |-> 0, start |-> 0, timeout |-> 0, interval |-> 0,
   due |-> 0, value |-> "none",
   count |-> 0, lastAt |-> 0, late |-> 0, first |-> "none",
   allThrow |-> TRUE, exact |-> TRUE, apart |-> TRUE]

PredResults == {"falsy", "throw", "v1", "v2"}

\* tick, lines 67-76, at time w.now with conditionFn's outcome res.
tick(w, res) ==
  LET step == waitForTick(res, w.now - w.start, w.timeout)
      gap == w.now - w.lastAt
      seen == [w EXCEPT !.count = @ + 1,
                        !.lastAt = w.now,
                        !.late = IF w.count = 0 THEN 0 ELSE w.now - w.due,
                        !.first = IF @ = "none" /\ Truthy(res) THEN res ELSE @,
                        !.allThrow = @ /\ res = "throw",
                        !.exact = @ /\ (w.count = 0 \/ gap = w.interval),
                        !.apart = @ /\ (w.count = 0 \/ gap >= w.interval)]
  IN CASE step = "resolve" -> [seen EXCEPT !.pc = "resolved", !.value = res]
       [] step = "reject" ->
            [seen EXCEPT !.pc = "rejected", !.value = TimeoutMessage]
       [] step = "again" -> [seen EXCEPT !.due = w.now + w.interval]
       [] OTHER -> [seen EXCEPT !.pc = "raised", !.value = res]

\* ------------------------------------------------------------------ Init
\* A page of the calendar that has just loaded: boot() has not run yet.
FreshPage(addr) ==
  /\ bootPc' = "start"
  /\ bootI' = 0
  /\ bootElapsed' = 0
  /\ bootSnap' = NoSnap
  /\ observing' = FALSE
  /\ turn' = 0
  /\ ov' = [o \in Overlays |-> Free]
  /\ popupShown' = [p \in Popups |-> FALSE]
  /\ heading' = [p \in Popups |-> NoHeading]
  /\ address' = addr
  /\ editor' = 0
  /\ editorValue' = <<>>
  /\ scrollTop' = NullTop
  /\ winTop' = 0
  /\ locks' = {}
  /\ detected' = [p \in Popups |-> 0]
  /\ dialogs' = <<>>
  /\ clicked' = {}

Init ==
  /\ bootPc = "start"
  /\ bootI = 0
  /\ bootElapsed = 0
  /\ bootSnap = NoSnap
  /\ observing = FALSE
  /\ turn = 0
  /\ ov = [o \in Overlays |-> Free]
  /\ popupShown = [p \in Popups |-> FALSE]
  /\ heading = [p \in Popups |-> NoHeading]
  /\ address = "/r/week"
  /\ editor = 0
  /\ editorValue = <<>>
  /\ scrollTop = NullTop
  /\ winTop = 0
  /\ ss = NoRecord
  /\ locks = {}
  /\ detected = [p \in Popups |-> 0]
  /\ dialogs = <<>>
  /\ clicked = {}
  /\ wf = NoCall

\* ------------------------------------------------- PendingRestore storage
\* setPendingRestore, lines 574-576: stored is FALSE when setItem throws.
setPendingRestore(store, payload, stored) ==
  IF stored THEN JSONstringify(payload) ELSE store

\* consumePendingRestore without removeItem.
consumeWithoutRemove(store) == <<store, store>>

\* consumePendingRestore, lines 577-584: <<record or NoRecord, store after>>.
consumePendingRestore(store) ==
  IF store = NoRecord THEN <<NoRecord, store>>
  ELSE <<store, NoRecord>>

\* ------------------------------------------------------------------ boot
\* boot(), lines 753-765, up to the end of its task: the synchronous part
\* of attemptApplyPendingRestore (consume, first tick of the scroller
\* wait), the initial sweep, the observer.  broken: the popups on which
\* injectEditorIntoPopup throws.
boot(broken) ==
  /\ bootPc = "start"
  /\ turn = 0
  /\ roomFor(ov, findQuickPopupDialogs)
  /\ LET got == consumePendingRestore(ss)
         raw == got[1]
         step == waitForTick(IF findPrimaryCalendarScroller THEN "el" ELSE "falsy",
                             0, ScrollerTimeout)
     IN /\ ss' = got[2]
        /\ IF raw = NoRecord
             THEN /\ bootPc' = "done"
                  /\ bootSnap' = NoSnap
                  /\ turn' = 0
             ELSE /\ bootSnap' = [primaryTop |-> JSONparse(raw).primaryTop,
                                  win |-> JSONparse(raw).win]
                  /\ bootPc' = IF step = "again" THEN "scrollerWait" ELSE "retry"
                  /\ turn' = IF step = "again" THEN 0 ELSE BootTurn
        /\ bootElapsed' = IF raw = NoRecord THEN 0 ELSE 1
        /\ bootI' = 0
  /\ ov' = injectAll(ov, findQuickPopupDialogs, 1, broken)
  /\ detected' = noteDetected(detected, findQuickPopupDialogs)
  /\ observing' = TRUE
  /\ UNCHANGED <<popupShown, heading, address, editor, editorValue,
                 scrollTop, winTop, locks, dialogs, clicked, wf>>

\* A later tick of waitFor(findPrimaryCalendarScroller) in
\* attemptApplyPendingRestore, lines 595-597; a timeout is swallowed.
BootScrollerTick ==
  /\ bootPc = "scrollerWait"
  /\ turn = 0
  /\ LET step == waitForTick(IF findPrimaryCalendarScroller THEN "el" ELSE "falsy",
                             bootElapsed, ScrollerTimeout)
     IN IF step = "again"
          THEN /\ bootElapsed' = bootElapsed + 1
               /\ UNCHANGED <<bootPc, turn>>
          ELSE /\ bootPc' = "retry"
               /\ turn' = BootTurn
               /\ UNCHANGED bootElapsed
  /\ UNCHANGED <<bootI, bootSnap, observing, ov, popupShown, heading, address,
                 editor, editorValue, scrollTop, winTop, ss, locks,
                 detected, dialogs, clicked, wf>>

\* One iteration of restoreCalendarScrollWithRetries(snap, 12, 80), lines
\* 598-599 and 528-540, or, after the last one, lockCalendarScroll.
BootRetry ==
  /\ bootPc = "retry"
  /\ \/ bootI = 0 /\ turn = BootTurn
     \/ bootI > 0 /\ turn = 0
  /\ IF bootI < BootTries
       THEN /\ scrollTop' = restoredTop(scrollTop, bootSnap)
            /\ winTop' = bootSnap.win
            /\ bootI' = bootI + 1
            /\ UNCHANGED <<bootPc, locks>>
       ELSE /\ bootPc' = "done"
            /\ IF isNumber(bootSnap.primaryTop)
                 THEN /\ scrollTop' = lockedTop(scrollTop, bootSnap.primaryTop[1])
                      /\ locks' = locks \cup {newLock(bootSnap.primaryTop[1])}
                 ELSE UNCHANGED <<scrollTop, locks>>
            /\ UNCHANGED <<bootI, winTop>>
  /\ turn' = 0
  /\ UNCHANGED <<bootElapsed, bootSnap, observing, ov, popupShown, heading,
                 address, editor, editorValue, ss,
                 detected, dialogs, clicked, wf>>

\* A tick of lockCalendarScroll's interval, lines 544-551.
LockTick(l) ==
  /\ l \in locks
  /\ turn = 0
  /\ LET left == IF l.left > 0 THEN l.left - 1 ELSE 0
     IN IF ~findPrimaryCalendarScroller
          THEN /\ locks' = (locks \ {l}) \cup {[l EXCEPT !.left = left]}
               /\ UNCHANGED scrollTop
          ELSE /\ scrollTop' = lockedTop(scrollTop, l.target)
               /\ locks' = IF left = 0 THEN locks \ {l}
                           ELSE (locks \ {l}) \cup {[l EXCEPT !.left = left]}
  /\ UNCHANGED <<bootPc, bootI, bootElapsed, bootSnap, observing, turn, ov,
                 popupShown, heading, address, editor, editorValue, winTop, ss,
                 detected, dialogs, clicked, wf>>

\* ------------------------------------------------------------------ host
\* The host page inserts quick popup p.  onMutations (lines 740-751) looks
\* for dialogs under each added node with querySelectorAll, which leaves
\* the added node itself out: the popup is found when it is inside the
\* added subtree (inside), not when it is the added node.
HostInsert(p, h, inside) ==
  /\ turn = 0
  /\ ~popupShown[p]
  /\ popupShown' = [popupShown EXCEPT ![p] = TRUE]
  /\ heading' = [heading EXCEPT ![p] = h]
  /\ IF observing /\ inside
       THEN /\ roomFor(ov, {p})
            /\ ov' = onBodyMutation(injectEditorIntoPopup(ov, p, h))
            /\ detected' = noteDetected(detected, {p})
       ELSE /\ ov' = onBodyMutation(ov)
            /\ UNCHANGED detected
  /\ clicked' = onDomMutation(ov, dialogs, clicked)
  /\ UNCHANGED <<bootPc, bootI, bootElapsed, bootSnap, observing, turn,
                 address, editor, editorValue, scrollTop, winTop, ss, locks,
                 dialogs, wf>>

\* The host re-attaches a subtree that holds the shown popup p: onMutations
\* sees p again.
HostReinsert(p) ==
  /\ turn = 0
  /\ popupShown[p]
  /\ observing
  /\ roomFor(ov, {p})
  /\ ov' = onBodyMutation(injectEditorIntoPopup(ov, p, heading[p]))
  /\ detected' = noteDetected(detected, {p})
  /\ clicked' = onDomMutation(ov, dialogs, clicked)
  /\ UNCHANGED <<bootPc, bootI, bootElapsed, bootSnap, observing, turn,
                 popupShown, heading, address, editor, editorValue, scrollTop,
                 winTop, ss, locks, dialogs, wf>>

\* The host attaches a subtree that holds the shown popups ps, in one
\* batch of mutations: onMutations (lines 740-751) hands each of them to
\* injectEditorIntoPopup, inside its try/catch.
HostReattach(ps, broken) ==
  /\ turn = 0
  /\ observing
  /\ ps # {}
  /\ ps \subseteq findQuickPopupDialogs
  /\ roomFor(ov, ps)
  /\ ov' = onBodyMutation(injectAll(ov, ps, 1, broken))
  /\ detected' = noteDetected(detected, ps)
  /\ clicked' = onDomMutation(ov, dialogs, clicked)
  /\ UNCHANGED <<bootPc, bootI, bootElapsed, bootSnap, observing, turn,
                 popupShown, heading, address, editor, editorValue, scrollTop,
                 winTop, ss, locks, dialogs, wf>>

\* The host removes popup p's node; an overlay host in it leaves the
\* document with it.
HostRemovePopup(p) ==
  /\ turn = 0
  /\ popupShown[p]
  /\ popupShown' = [popupShown EXCEPT ![p] = FALSE]
  /\ heading' = [heading EXCEPT ![p] = NoHeading]
  /\ ov' = gc(onBodyMutation(
                [o \in Overlays |->
                   IF ov[o].live = "attached" /\ ov[o].popup = p
                     THEN [ov[o] EXCEPT !.live = "detached"]
                     ELSE ov[o]]))
  /\ detected' = forgetDetected(detected, {p})
  /\ clicked' = onDomMutation(ov, dialogs, clicked)
  /\ UNCHANGED <<bootPc, bootI, bootElapsed, bootSnap, observing, turn,
                 address, editor, editorValue, scrollTop, winTop, ss, locks,
                 dialogs, wf>>

HostRetitle(p, h) ==
  /\ turn = 0
  /\ popupShown[p]
  /\ h # heading[p]
  /\ heading' = [heading EXCEPT ![p] = h]
  /\ ov' = onBodyMutation(ov)
  /\ clicked' = onDomMutation(ov, dialogs, clicked)
  /\ UNCHANGED <<bootPc, bootI, bootElapsed, bootSnap, observing, turn,
                 popupShown, address, editor, editorValue, scrollTop, winTop,
                 ss, locks, detected, dialogs, wf>>

\* The host shows the full editor of popup p's event, its title input
\* holding the event's title, or closes the editor.
HostOpenEditor(p) ==
  /\ turn = 0
  /\ editor = 0
  /\ editor' = p
  /\ editorValue' = extractTitleFromPopup(heading[p])
  /\ ov' = onBodyMutation(ov)
  /\ clicked' = onDomMutation(ov, dialogs, clicked)
  /\ UNCHANGED <<bootPc, bootI, bootElapsed, bootSnap, observing, turn,
                 popupShown, heading, address, scrollTop, winTop, ss, locks,
                 detected, dialogs, wf>>

HostCloseEditor ==
  /\ turn = 0
  /\ editor # 0
  /\ editor' = 0
  /\ ov' = onBodyMutation(ov)
  /\ clicked' = onDomMutation(ov, dialogs, clicked)
  /\ UNCHANGED <<bootPc, bootI, bootElapsed, bootSnap, observing, turn,
                 popupShown, heading, address, editorValue, scrollTop, winTop,
                 ss, locks, detected, dialogs, wf>>

\* The host router changes the address in place.
HostNavigate(r) ==
  /\ turn = 0
  /\ r # address
  /\ address' = r
  /\ UNCHANGED <<bootPc, bootI, bootElapsed, bootSnap, observing, turn, ov,
                 popupShown, heading, editor, editorValue, scrollTop, winTop,
                 ss, locks, detected, dialogs, clicked, wf>>

\* The host re-renders: the primary scroller appears, goes, or moves.
HostScroll(t) ==
  /\ turn = 0
  /\ t # scrollTop
  /\ scrollTop' = t
  /\ clicked' = IF isNumber(t) # isNumber(scrollTop)
                  THEN onDomMutation(ov, dialogs, clicked)
                  ELSE clicked
  /\ ov' = IF isNumber(t) # isNumber(scrollTop) THEN onBodyMutation(ov) ELSE ov
  /\ UNCHANGED <<bootPc, bootI, bootElapsed, bootSnap, observing, turn,
                 popupShown, heading, address, editor, editorValue, winTop,
                 ss, locks, detected, dialogs, wf>>

HostScrollWindow(w) ==
  /\ turn = 0
  /\ w # winTop
  /\ winTop' = w
  /\ UNCHANGED <<bootPc, bootI, bootElapsed, bootSnap, observing, turn, ov,
                 popupShown, heading, address, editor, editorValue, scrollTop,
                 ss, locks, detected, dialogs, clicked, wf>>

\* The host adds element d to the document as the i-th dialog or region,
\* or takes the i-th one out.
HostShowDialog(i, d) ==
  /\ turn = 0
  /\ Len(dialogs) < MaxDialogs
  /\ i \in 1..(Len(dialogs) + 1)
  /\ dialogs' = SubSeq(dialogs, 1, i - 1) \o <<d>> \o
                  SubSeq(dialogs, i, Len(dialogs))
  /\ clicked' = onDomMutation(ov, dialogs', clicked)
  /\ ov' = onBodyMutation(ov)
  /\ UNCHANGED <<bootPc, bootI, bootElapsed, bootSnap, observing, turn,
                 popupShown, heading, address, editor, editorValue, scrollTop,
                 winTop, ss, locks, detected, wf>>

HostHideDialog(i) ==
  /\ turn = 0
  /\ i \in 1..Len(dialogs)
  /\ dialogs' = SubSeq(dialogs, 1, i - 1) \o SubSeq(dialogs, i + 1, Len(dialogs))
  /\ clicked' = onDomMutation(ov, dialogs', clicked)
  /\ ov' = onBodyMutation(ov)
  /\ UNCHANGED <<bootPc, bootI, bootElapsed, bootSnap, observing, turn,
                 popupShown, heading, address, editor, editorValue, scrollTop,
                 winTop, ss, locks, detected, wf>>

\* The calendar page loads at address r (lines 767-774 run boot next): a
\* reload or a navigation by the user; sessionStorage outlives it.
PageLoad(r) ==
  /\ turn = 0
  /\ FreshPage(r)
  /\ UNCHANGED <<ss, wf>>

\* ---------------------------------------------------------- overlay, user
onlyOv ==
  UNCHANGED <<bootPc, bootI, bootElapsed, bootSnap, observing, turn,
              popupShown, heading, address, editor, editorValue, scrollTop,
              winTop, ss, locks, dialogs, wf>>

\* An input event on the title field, line 314 (a disabled or hidden field
\* takes no input).
UserType(o, v) ==
  /\ turn = 0
  /\ ov[o].live = "attached"
  /\ ~ov[o].titleDisabled
  /\ ~ov[o].collapsed
  /\ v # ov[o].title
  /\ ov' = [ov EXCEPT ![o] = updateDirty([@ EXCEPT !.title = v])]
  /\ onlyOv
  /\ UNCHANGED <<detected, clicked>>

\* The toggle button, lines 318-321.
Toggle(o) ==
  /\ turn = 0
  /\ ov[o].live = "attached"
  /\ ov' = [ov EXCEPT ![o] = setCollapsed(@, ~@.collapsed)]
  /\ onlyOv
  /\ UNCHANGED <<detected, clicked>>

\* The reload handler, lines 352-356 (button or Alt+R).
reload(u, h) ==
  [setStatus([u EXCEPT !.title = OrElse(extractTitleFromPopup(h), u.title)],
             StatusReloaded)
     EXCEPT !.clears = u.clears + 1]

Reload(o) ==
  /\ turn = 0
  /\ ov[o].live = "attached"
  /\ ov[o].clears < MaxClears
  /\ ov' = [ov EXCEPT ![o] = reload(@, heading[@.popup])]
  /\ onlyOv
  /\ UNCHANGED <<detected, clicked>>

\* The cancel handler, lines 358-360 (button or Escape).
Cancel(o) ==
  /\ turn = 0
  /\ ov[o].live = "attached"
  /\ ov' = gc(onBodyMutation([ov EXCEPT ![o].live = "detached"]))
  /\ detected' = forgetDetected(detected, {ov[o].popup})
  /\ clicked' = onDomMutation(ov, dialogs, clicked)
  /\ onlyOv

\* A status-clear timer (line 355 or 418) fires.
StatusClear(o) ==
  /\ turn = 0
  /\ ov[o].live # "free"
  /\ ov[o].clears > 0
  /\ ov' = [ov EXCEPT ![o] = [setStatus(@, StatusNone) EXCEPT !.clears = @ - 1]]
  /\ onlyOv
  /\ UNCHANGED <<detected, clicked>>

\* ------------------------------------------------------------ save handler
\* The fallback of lines 372-377 replaced by a click.
openEditorClicks(found) == <<"click">>

\* Lines 369-377: what the handler dispatches to open the editor, in order:
\* a click on the control findEditButton found, or else focusWithin(popup)
\* and the three key events of simulateKey('e').
openEditor(found) ==
  IF found THEN <<"click">>
  ELSE <<"focus", "keydown e", "keypress e", "keyup e">>

\* Lines 364-368 and 369-377: setSaving(true), the first status, the two
\* snapshots, then the open-editor control or the keyboard fallback.
saveBegin(u, route, scroll, how) ==
  [setStatus(setSaving(u, TRUE), StatusOpening)
     EXCEPT !.routeSnap = route, !.scrollSnap = scroll, !.opened = how,
            !.softCur = Null, !.softRet = Null, !.watcher = "none",
            !.last = 0, !.idleRet = "none",
            !.pc = "titleWait", !.elapsed = 0, !.i = 0]

\* The handler returns: its locals are gone (opened, the history of what
\* the attempt dispatched to open the editor, stays until the next one).
endAttempt(u, how) ==
  [u EXCEPT !.pc = how, !.elapsed = 0, !.i = 0, !.routeSnap = Null,
            !.scrollSnap = NoSnap, !.softCur = Null,
            !.softRet = Null, !.watcher = "none",
            !.last = 0, !.idleRet = "none", !.wrote = Null]

\* The catch without setSaving(false).
saveFailedStillSaving(u, message) ==
  endAttempt(setStatus(u, ErrorStatus(message)), "failed")

\* The catch with a markSaved() in it.
saveFailedMarksSaved(u, message) ==
  endAttempt(markSaved(setStatus(setSaving(u, FALSE), ErrorStatus(message))),
             "failed")

\* Lines 419-423: the catch of the save handler, e.message = message.
saveFailed(u, message) ==
  endAttempt(setStatus(setSaving(u, FALSE), ErrorStatus(message)), "failed")

\* The prompt watcher armed when the title input is found.
titleFoundArmsWatcher(u) ==
  [setStatus(setStatus(u, StatusUpdating), StatusSaving)
     EXCEPT !.pc = "saveWait", !.elapsed = 0, !.watcher = "armed"]

\* Lines 382-386: the statuses around setTextInputValue, then the wait for
\* the save control starts; wrote keeps the value written, ui.title.value
\* as it is now, for as long as the attempt runs.
titleFound(u) ==
  [setStatus(setStatus(u, StatusUpdating), StatusSaving)
     EXCEPT !.pc = "saveWait", !.elapsed = 0, !.wrote = u.title]

\* Lines 388-394: the save control was clicked; the prompt watcher is armed
\* and waitForCalendarIdle sleeps after its first check (0 ms of quiet).
saveClicked(u) ==
  [u EXCEPT !.watcher = "armed", !.pc = "idleWait", !.elapsed = 0,
            !.last = 0]

\* Lines 395-398 without stopPromptWatch().
idleReturnedKeepsWatcher(u) == setStatus(u, StatusRestoring)

\* Lines 395-398: stopPromptWatch() and the status.
idleReturned(u) ==
  [setStatus(u, StatusRestoring) EXCEPT !.watcher = "off"]

\* Lines 414-418: the end of a successful attempt.
saveDone(u) ==
  [endAttempt(markSaved(setStatus(setSaving(u, FALSE), StatusSaved)), "done")
     EXCEPT !.clears = IF u.clears < MaxClears THEN u.clears + 1 ELSE u.clears]

findTitleInput == IF editor # 0 THEN "input" ELSE "falsy"
findSaveButton == IF editor # 0 THEN "button" ELSE "falsy"

\* The address and the primary scroller's position the host's listeners
\* may leave when they have handled the click or the key events of lines
\* 371-376, and the ones they leave when they touch neither.
HostAfter ==
  {[address |-> r, scrollTop |-> t] :
     r \in Routes, t \in {x \in ScrollStates : isNumber(x) = isNumber(scrollTop)}}
stays == [address |-> address, scrollTop |-> scrollTop]

\* The two snapshots read after the editor was asked to open.
snapshotsAfterOpen(after) ==
  [routeSnap |-> after.address,
   scrollSnap |-> [primaryTop |-> after.scrollTop, win |-> winTop]]

\* Lines 367-368, which run before lines 369-377: the snapshots are of the
\* page as it is before the host has handled anything.
snapshots(after) ==
  [routeSnap |-> snapshotRoute, scrollSnap |-> snapshotCalendarScroll]

\* A click on the enabled save button (or Ctrl/Cmd+S, which clicks it),
\* lines 362-380 up to the first tick of the title wait.  found: whether
\* findEditButton finds a control; opens: the host opens the editor while
\* handling the click or the key events; after: the address and the
\* scroll position its listeners leave.
SaveClick(o, found, opens, after) ==
  /\ turn = 0
  /\ ov[o].live = "attached"
  /\ ~ov[o].saveDisabled
  /\ ov' = [(IF opens /\ editor = 0 THEN onBodyMutation(ov) ELSE ov)
              EXCEPT ![o] =
                saveBegin(@, snapshots(after).routeSnap,
                          snapshots(after).scrollSnap, openEditor(found))]
  /\ address' = after.address
  /\ scrollTop' = after.scrollTop
  /\ IF opens /\ editor = 0
       THEN /\ editor' = ov[o].popup
            /\ editorValue' = extractTitleFromPopup(heading[ov[o].popup])
       ELSE UNCHANGED <<editor, editorValue>>
  /\ clicked' = IF opens /\ editor = 0
                  THEN onDomMutation(ov, dialogs, clicked)
                  ELSE clicked
  /\ turn' = o
  /\ UNCHANGED <<bootPc, bootI, bootElapsed, bootSnap, observing, popupShown,
                 heading, winTop, ss, locks, detected, dialogs, wf>>

\* A tick of waitFor(findTitleInput, 20000), line 380: the first one in the
\* click's task, the later ones on the timer.
TitleTick(o) ==
  /\ ov[o].pc = "titleWait"
  /\ \/ ov[o].elapsed = 0 /\ turn = o
     \/ ov[o].elapsed > 0 /\ turn = 0
  /\ LET step == waitForTick(findTitleInput, ov[o].elapsed, TitleTimeout)
     IN CASE step = "resolve" ->
               /\ ov' = [ov EXCEPT ![o] = titleFound(@)]
               /\ editorValue' = ov[o].title
               /\ turn' = o
          [] step = "reject" ->
               /\ ov' = gc([ov EXCEPT ![o] = saveFailed(@, TimeoutMessage)])
               /\ turn' = 0
               /\ UNCHANGED editorValue
          [] OTHER ->
               /\ ov' = [ov EXCEPT ![o].elapsed = @ + 1]
               /\ turn' = 0
               /\ UNCHANGED editorValue
  /\ UNCHANGED <<bootPc, bootI, bootElapsed, bootSnap, observing, popupShown,
                 heading, address, editor, scrollTop, winTop, ss, locks,
                 detected, dialogs, clicked, wf>>

\* A tick of waitFor(findSaveButton, 12000), lines 387-394.  closes: the
\* host closes the editor while handling the click on its save control,
\* before this attempt's prompt watcher is connected.
SaveTick(o, closes) ==
  /\ ov[o].pc = "saveWait"
  /\ \/ ov[o].elapsed = 0 /\ turn = o
     \/ ov[o].elapsed > 0 /\ turn = 0
  /\ LET step == waitForTick(findSaveButton, ov[o].elapsed, SaveTimeout)
     IN CASE step = "resolve" ->
               /\ ov' = [(IF closes THEN onBodyMutation(ov) ELSE ov)
                           EXCEPT ![o] = saveClicked(@)]
               /\ editor' = IF closes THEN 0 ELSE editor
          [] step = "reject" ->
               /\ ~closes
               /\ ov' = gc([ov EXCEPT ![o] = saveFailed(@, TimeoutMessage)])
               /\ UNCHANGED editor
          [] OTHER ->
               /\ ~closes
               /\ ov' = [ov EXCEPT ![o].elapsed = @ + 1]
               /\ UNCHANGED editor
  /\ clicked' = IF closes THEN onDomMutation(ov, dialogs, clicked) ELSE clicked
  /\ turn' = 0
  /\ UNCHANGED <<bootPc, bootI, bootElapsed, bootSnap, observing, popupShown,
                 heading, address, editorValue, scrollTop, winTop, ss, locks,
                 detected, dialogs, wf>>

\* restoreRouteSoft(prevUrl), lines 561-567, up to its sleep: the address
\* it leaves.  replaced is FALSE when history.replaceState throws (the
\* popstate event is then not dispatched); hostRoute is the address the
\* host's popstate listeners leave.
softRestoredAddress(cur, prevUrl, replaced, hostRoute) ==
  IF cur = prevUrl THEN cur
  ELSE IF replaced THEN hostRoute
  ELSE cur

\* restoreRouteSoft that skips the comparison of line 563.
restoreRouteSoftAlways(cur, prevUrl) == "true"

\* restoreRouteSoft(prevUrl), lines 562-563 and 569: what it returns.
restoreRouteSoft(cur, prevUrl) == IF cur = prevUrl THEN "false" ELSE "true"

\* Line 694: busy, with bars the progress indicators of the page; a shown
\* quick popup is a visible div[role=dialog] too.
busy(bars) ==
  \/ \E p \in Popups : popupShown[p]
  \/ isAnyDialogOpen(dialogs)
  \/ findVisibleProgressIndicator(bars) # <<>>

\* A wake-up of waitForCalendarIdle, lines 693-700, and, when it returns,
\* lines 395-399 up to restoreRouteSoft's sleep.
IdleTick(o, bars, replaced, hostRoute) ==
  /\ ov[o].pc = "idleWait"
  /\ turn = 0
  /\ LET idle == waitForCalendarIdle(nextWake(ov[o]), ov[o].last, busy(bars))
     IN
     IF idle = "again"
       THEN /\ replaced /\ hostRoute = address
            /\ ov' = [ov EXCEPT ![o].elapsed = @ + 1]
            /\ UNCHANGED <<address, turn>>
       ELSE LET cur == snapshotRoute
                ret == restoreRouteSoft(cur, ov[o].routeSnap)
            IN IF ret = "false"
                 THEN /\ replaced /\ hostRoute = address
                      /\ ov' = [ov EXCEPT ![o] =
                                  [idleReturned(@) EXCEPT !.idleRet = idle,
                                                          !.softCur = cur,
                                                          !.softRet = ret,
                                                          !.pc = "routeCheck"]]
                      /\ turn' = o
                      /\ UNCHANGED address
                 ELSE /\ ov' = [ov EXCEPT ![o] =
                                  [idleReturned(@) EXCEPT !.idleRet = idle,
                                                          !.softCur = cur,
                                                          !.softRet = ret,
                                                          !.pc = "routeSettle"]]
                      /\ address' = softRestoredAddress(cur, ov[o].routeSnap,
                                                        replaced, hostRoute)
                      /\ UNCHANGED turn
  /\ UNCHANGED <<bootPc, bootI, bootElapsed, bootSnap, observing, popupShown,
                 heading, editor, editorValue, scrollTop, winTop, ss, locks,
                 detected, dialogs, clicked, wf>>

\* restoreRouteSoft's sleep ends, lines 568-569: it returns.
RouteSettle(o) ==
  /\ ov[o].pc = "routeSettle"
  /\ turn = 0
  /\ ov' = [ov EXCEPT ![o].pc = "routeCheck"]
  /\ turn' = o
  /\ UNCHANGED <<bootPc, bootI, bootElapsed, bootSnap, observing, popupShown,
                 heading, address, editor, editorValue, scrollTop, winTop, ss,
                 locks, detected, dialogs, clicked, wf>>

\* Lines 402-410: the address is read again; a PendingRestore and a hard
\* navigation when it differs, else the first iteration of
\* restoreCalendarScrollWithRetries.  stored is FALSE when setItem throws.
\* The payload of line 404 filled from the page as it is now.
payloadOfCurrent(u) ==
  [url |-> snapshotRoute, primaryTop |-> snapshotCalendarScroll.primaryTop,
   win |-> snapshotCalendarScroll.win]

pendingPayload(u) ==
  [url |-> u.routeSnap, primaryTop |-> u.scrollSnap.primaryTop,
   win |-> u.scrollSnap.win]

\* location.assign(url), line 405, from the address cur: a url that has a
\* fragment and differs from cur in nothing else scrolls to the fragment
\* within the document; any other url loads a page.
assignLoads(cur, url) == ~(hasFragment(url) /\ pathOf(url) = pathOf(cur))

\* Line 406 in a document that location.assign did not replace: the
\* handler returns as it is.
returnedAfterAssign(u) == endAttempt(u, "assigned")

RouteCheck(o, stored) ==
  /\ ov[o].pc = "routeCheck"
  /\ turn = o
  /\ IF snapshotRoute # ov[o].routeSnap
       THEN /\ ss' = setPendingRestore(ss, pendingPayload(ov[o]), stored)
            /\ IF assignLoads(address, ov[o].routeSnap)
                 THEN FreshPage(ov[o].routeSnap)
                 ELSE /\ address' = ov[o].routeSnap
                      /\ ov' = gc([ov EXCEPT ![o] = returnedAfterAssign(@)])
                      /\ turn' = 0
                      /\ UNCHANGED <<bootPc, bootI, bootElapsed, bootSnap,
                                     observing, popupShown, heading, editor,
                                     editorValue, scrollTop, winTop, locks,
                                     detected, dialogs, clicked>>
       ELSE /\ stored
            /\ scrollTop' = restoredTop(scrollTop, ov[o].scrollSnap)
            /\ winTop' = ov[o].scrollSnap.win
            /\ ov' = [ov EXCEPT ![o] = [@ EXCEPT !.pc = "scrollRetry", !.i = 1]]
            /\ turn' = 0
            /\ UNCHANGED <<bootPc, bootI, bootElapsed, bootSnap, observing,
                           popupShown, heading, address, editor, editorValue,
                           ss, locks, detected, dialogs, clicked>>
  /\ UNCHANGED wf

\* A later iteration of restoreCalendarScrollWithRetries, or, after the
\* last one, lines 411-418.
ScrollRetry(o) ==
  /\ ov[o].pc = "scrollRetry"
  /\ turn = 0
  /\ IF ov[o].i < ScrollTries
       THEN /\ scrollTop' = restoredTop(scrollTop, ov[o].scrollSnap)
            /\ winTop' = ov[o].scrollSnap.win
            /\ ov' = [ov EXCEPT ![o].i = @ + 1]
            /\ UNCHANGED locks
       ELSE /\ IF isNumber(ov[o].scrollSnap.primaryTop)
                 THEN /\ scrollTop' =
                           lockedTop(scrollTop, ov[o].scrollSnap.primaryTop[1])
                      /\ locks' = locks \cup
                           {newLock(ov[o].scrollSnap.primaryTop[1])}
                 ELSE UNCHANGED <<scrollTop, locks>>
            /\ ov' = gc([ov EXCEPT ![o] = saveDone(@)])
            /\ UNCHANGED winTop
  /\ UNCHANGED <<bootPc, bootI, bootElapsed, bootSnap, observing, turn,
                 popupShown, heading, address, editor, editorValue, ss,
                 detected, dialogs, clicked, wf>>

\* The prompt watcher's own timer, line 660.
WatcherExpire(o) ==
  /\ turn = 0
  /\ ov[o].watcher = "armed"
  /\ ov' = [ov EXCEPT ![o].watcher = "off"]
  /\ onlyOv
  /\ UNCHANGED <<detected, clicked>>

\* ------------------------------------------------------ waitFor, timed
\* waitFor is called, lines 64-78: start and the first tick.
WaitForCall(timeout, interval, res) ==
  /\ wf.pc = "none"
  /\ wf' = tick([wf EXCEPT !.pc = "pending", !.start = wf.now,
                           !.timeout = timeout, !.interval = interval], res)
  /\ UNCHANGED pageVars

\* The timer of line 75 runs tick, when it is due or later.
TimerTick(res) ==
  /\ wf.pc = "pending"
  /\ wf.now >= wf.due
  /\ wf' = tick(wf, res)
  /\ UNCHANGED pageVars

\* A millisecond passes; a pending timer runs at most MaxLate after it is
\* due.
ClockTick ==
  /\ \/ wf.pc = "none" /\ wf.now < MaxLate
     \/ wf.pc = "pending" /\ wf.now < wf.due + MaxLate
  /\ wf' = [wf EXCEPT !.now = @ + 1]
  /\ UNCHANGED pageVars

\* ------------------------------------------------------- specifications
OnePopup == {1}
HeadingA == [has |-> TRUE, text |-> <<" ", "a">>]

\* Spec: the overlay of one quick popup, its user (typing, reloading,
\* folding the card) and its save attempts, on
\* a page whose host opens and closes the editor and rewrites the popup's
\* heading, and neither navigates nor scrolls.
Next ==
  \/ boot({})
  \/ \E p \in OnePopup, h \in Headings, inside \in BOOLEAN : HostInsert(p, h, inside)
  \/ \E p \in OnePopup, h \in Headings : HostRetitle(p, h)
  \/ \E p \in OnePopup : HostOpenEditor(p)
  \/ HostCloseEditor
  \/ \E o \in Overlays, v \in Titles : UserType(o, v)
  \/ \E o \in Overlays : Reload(o)
  \/ \E o \in Overlays : Toggle(o)
  \/ \E o \in Overlays : StatusClear(o)
  \/ \E o \in Overlays, found \in BOOLEAN, opens \in BOOLEAN : SaveClick(o, found, opens, stays)
  \/ \E o \in Overlays : TitleTick(o)
  \/ \E o \in Overlays, closes \in BOOLEAN : SaveTick(o, closes)
  \/ \E o \in Overlays, bars \in Bars : IdleTick(o, bars, TRUE, address)
  \/ \E o \in Overlays : RouteCheck(o, TRUE)
  \/ \E o \in Overlays : ScrollRetry(o)
  \/ \E o \in Overlays : WatcherExpire(o)

Spec == Init /\ [][Next]_vars

\* SpecDetect: detection and injection over all the popups: the initial
\* sweep, the mutation callback, cancel and removal, with the user typing
\* into the overlays.
NextDetect ==
  \/ boot({})
  \/ \E p \in Popups, h \in {HeadingA, NoHeading}, inside \in BOOLEAN :
       HostInsert(p, h, inside)
  \/ \E p \in Popups : HostReinsert(p)
  \/ \E p \in Popups : HostRemovePopup(p)
  \/ \E p \in Popups, h \in {HeadingA, NoHeading} : HostRetitle(p, h)
  \/ \E o \in Overlays, v \in {<<"b">>} : UserType(o, v)
  \/ \E o \in Overlays : Cancel(o)

SpecDetect == Init /\ [][NextDetect]_vars

\* SpecSave: the save attempts of one popup's overlay on a page whose host
\* navigates and scrolls at any time, with the hard navigation, the page
\* loads and the pending restore at boot.
NextSave ==
  \/ boot({})
  \/ BootScrollerTick
  \/ BootRetry
  \/ \E l \in locks : LockTick(l)
  \/ \E r \in Routes : PageLoad(r)
  \/ \E p \in OnePopup, inside \in BOOLEAN : HostInsert(p, HeadingA, inside)
  \/ \E r \in Routes : HostNavigate(r)
  \/ \E t \in {NullTop, Num(40)} : HostScroll(t)
  \/ \E w \in WinTops : HostScrollWindow(w)
  \/ \E o \in Overlays, v \in {<<"b">>} : UserType(o, v)
  \/ \E o \in Overlays, opens \in BOOLEAN : SaveClick(o, TRUE, opens, stays)
  \/ \E o \in Overlays : TitleTick(o)
  \/ \E o \in Overlays, closes \in BOOLEAN : SaveTick(o, closes)
  \/ \E o \in Overlays, replaced \in BOOLEAN, r \in Routes :
       IdleTick(o, <<>>, replaced, r)
  \/ \E o \in Overlays : RouteSettle(o)
  \/ \E o \in Overlays, stored \in BOOLEAN : RouteCheck(o, stored)
  \/ \E o \in Overlays : ScrollRetry(o)

SpecSave == Init /\ [][NextSave]_vars

\* SpecSnap: the save attempts of one popup's overlay on a page whose host
\* may navigate and scroll while it handles the click that opens the
\* editor, and at any time after.
NextSnap ==
  \/ boot({})
  \/ BootScrollerTick
  \/ BootRetry
  \/ \E r \in Routes : PageLoad(r)
  \/ \E p \in OnePopup : HostInsert(p, HeadingA, TRUE)
  \/ \E r \in Routes : HostNavigate(r)
  \/ \E t \in {Num(0), Num(40)} : HostScroll(t)
  \/ \E o \in Overlays : UserType(o, <<"b">>)
  \/ \E o \in Overlays, opens \in BOOLEAN, after \in HostAfter :
       SaveClick(o, TRUE, opens, after)
  \/ \E o \in Overlays : TitleTick(o)
  \/ \E o \in Overlays : SaveTick(o, TRUE)
  \/ \E o \in Overlays, replaced \in BOOLEAN, r \in Routes :
       IdleTick(o, <<>>, replaced, r)
  \/ \E o \in Overlays : RouteSettle(o)
  \/ \E o \in Overlays : RouteCheck(o, TRUE)
  \/ \E o \in Overlays : ScrollRetry(o)

SpecSnap == Init /\ [][NextSnap]_vars

\* SpecPrompt: the save attempts of one popup's overlay on a page whose
\* host shows and hides dialogs and regions at any time.
NextPrompt ==
  \/ boot({})
  \/ \E p \in OnePopup : HostInsert(p, HeadingA, TRUE)
  \/ \E o \in Overlays, v \in {<<"a">>, <<"b">>} : UserType(o, v)
  \/ \E o \in Overlays : SaveClick(o, TRUE, TRUE, stays)
  \/ \E o \in Overlays : TitleTick(o)
  \/ \E o \in Overlays, closes \in BOOLEAN : SaveTick(o, closes)
  \/ \E o \in Overlays, bars \in Bars : IdleTick(o, bars, TRUE, address)
  \/ \E o \in Overlays : RouteCheck(o, TRUE)
  \/ \E o \in Overlays : ScrollRetry(o)
  \/ \E o \in Overlays : WatcherExpire(o)
  \/ \E i \in 1..(MaxDialogs + 1), d \in Elements : HostShowDialog(i, d)
  \/ \E i \in 1..MaxDialogs : HostHideDialog(i)

SpecPrompt == Init /\ [][NextPrompt]_vars

\* SpecTwo: two quick popups shown at once, each with its overlay and its
\* save attempts, on a page whose host has one editor, which it opens for
\* a popup whose control was clicked when none is open, in the click or
\* later, and closes at any time.
NextTwo ==
  \/ boot({})
  \/ \E p \in Popups : HostInsert(p, HeadingA, TRUE)
  \/ \E p \in Popups :
       /\ \E o \in Overlays : ov[o].popup = p /\ ov[o].pc = "titleWait"
       /\ HostOpenEditor(p)
  \/ HostCloseEditor
  \/ \E o \in Overlays : UserType(o, <<"b">>)
  \/ \E o \in Overlays, opens \in BOOLEAN : SaveClick(o, TRUE, opens, stays)
  \/ \E o \in Overlays : TitleTick(o)
  \/ \E o \in Overlays, closes \in BOOLEAN : SaveTick(o, closes)
  \/ \E o \in Overlays : IdleTick(o, <<>>, TRUE, address)
  \/ \E o \in Overlays : RouteCheck(o, TRUE)
  \/ \E o \in Overlays : ScrollRetry(o)

SpecTwo == Init /\ [][NextTwo]_vars

\* SpecHash: the save attempts of one popup's overlay on a page whose
\* routes may carry a fragment and whose host navigates at any time, with
\* every timer of the handler run at some time after it was set.
NextHash ==
  \/ boot({})
  \/ BootScrollerTick
  \/ BootRetry
  \/ \E p \in OnePopup : HostInsert(p, HeadingA, TRUE)
  \/ \E r \in HashRoutes : HostNavigate(r)
  \/ \E o \in Overlays : UserType(o, <<"b">>)
  \/ \E o \in Overlays : SaveClick(o, TRUE, TRUE, stays)
  \/ \E o \in Overlays : TitleTick(o)
  \/ \E o \in Overlays : SaveTick(o, TRUE)
  \/ \E o \in Overlays, replaced \in BOOLEAN, r \in HashRoutes :
       IdleTick(o, <<>>, replaced, r)
  \/ \E o \in Overlays : RouteSettle(o)
  \/ \E o \in Overlays : RouteCheck(o, TRUE)
  \/ \E o \in Overlays : ScrollRetry(o)

SpecHash ==
  /\ Init /\ [][NextHash]_vars
  /\ WF_vars(BootScrollerTick) /\ WF_vars(BootRetry)
  /\ \A o \in Overlays :
       /\ WF_vars(TitleTick(o))
       /\ WF_vars(SaveTick(o, TRUE))
       /\ WF_vars(\E replaced \in BOOLEAN, r \in HashRoutes :
                    IdleTick(o, <<>>, replaced, r))
       /\ WF_vars(RouteSettle(o))
       /\ WF_vars(RouteCheck(o, TRUE))
       /\ WF_vars(ScrollRetry(o))

\* SpecWatch: the save attempts of one popup's overlay on a page whose
\* host shows and hides its confirmation prompt at any time, with the timer
\* of line 660 run at some time after it was set, as the event loop runs
\* every timer of a page that stays loaded.
NextWatch ==
  \/ boot({})
  \/ \E p \in OnePopup : HostInsert(p, HeadingA, TRUE)
  \/ \E o \in Overlays : UserType(o, <<"b">>)
  \/ \E o \in Overlays : SaveClick(o, TRUE, TRUE, stays)
  \/ \E o \in Overlays : TitleTick(o)
  \/ \E o \in Overlays, closes \in BOOLEAN : SaveTick(o, closes)
  \/ \E o \in Overlays : IdleTick(o, <<>>, TRUE, address)
  \/ \E o \in Overlays : RouteCheck(o, TRUE)
  \/ \E o \in Overlays : ScrollRetry(o)
  \/ \E o \in Overlays : WatcherExpire(o)
  \/ \E d \in Prompts \cup Notices : HostShowDialog(1, d)
  \/ HostHideDialog(1)

SpecWatch ==
  /\ Init /\ [][NextWatch]_vars
  /\ \A o \in Overlays : WF_vars(WatcherExpire(o))

\* SpecIdle: the save attempts of one popup's overlay on a page whose host
\* closes the quick popup, shows and hides other dialogs and regions and
\* shows progress indicators while the attempt waits for the page to be
\* idle; the popup is shown again only once the attempt is over.
NextIdle ==
  \/ boot({})
  \/ \E p \in OnePopup :
       /\ \A o \in Overlays : ov[o].live = "free"
       /\ HostInsert(p, HeadingA, TRUE)
  \/ \E p \in OnePopup : HostRemovePopup(p)
  \/ \E o \in Overlays, v \in {<<"b">>} : UserType(o, v)
  \/ \E o \in Overlays : SaveClick(o, TRUE, TRUE, stays)
  \/ \E o \in Overlays : TitleTick(o)
  \/ \E o \in Overlays, closes \in BOOLEAN : SaveTick(o, closes)
  \/ \E o \in Overlays, bars \in Bars : IdleTick(o, bars, TRUE, address)
  \/ \E o \in Overlays : RouteCheck(o, TRUE)
  \/ \E o \in Overlays : ScrollRetry(o)
  \/ \E o \in Overlays : WatcherExpire(o)
  \/ \E d \in Panels \cup Notices : HostShowDialog(1, d)
  \/ HostHideDialog(1)

SpecIdle == Init /\ [][NextIdle]_vars

\* SpecScroll: the save attempts of one popup's overlay on a page whose
\* host moves the primary scroller, takes it away and puts another in its
\* place at any time, the scroll locks included.
NextScroll ==
  \/ boot({})
  \/ \E p \in OnePopup : HostInsert(p, HeadingA, TRUE)
  \/ \E t \in ScrollStates : HostScroll(t)
  \/ \E l \in locks : LockTick(l)
  \/ \E o \in Overlays, v \in {<<"a">>, <<"b">>} : UserType(o, v)
  \/ \E o \in Overlays : SaveClick(o, TRUE, TRUE, stays)
  \/ \E o \in Overlays : TitleTick(o)
  \/ \E o \in Overlays : SaveTick(o, FALSE)
  \/ \E o \in Overlays : IdleTick(o, <<>>, TRUE, address)
  \/ \E o \in Overlays : RouteCheck(o, TRUE)
  \/ \E o \in Overlays : ScrollRetry(o)

SpecScroll == Init /\ [][NextScroll]_vars

\* SpecContain: detection over all the popups with injections that throw,
\* in the sweep of boot and in the batches of the mutation observer.
NextContain ==
  \/ \E broken \in SUBSET findQuickPopupDialogs : boot(broken)
  \/ \E p \in Popups, h \in {HeadingA, NoHeading}, inside \in BOOLEAN :
       HostInsert(p, h, inside)
  \/ \E ps \in SUBSET findQuickPopupDialogs :
       \E broken \in SUBSET ps : HostReattach(ps, broken)
  \/ \E p \in Popups : HostRemovePopup(p)
  \/ \E o \in Overlays : Cancel(o)

SpecContain == Init /\ [][NextContain]_vars

\* SpecWait: one call of waitFor with any timeout and interval, a condition
\* that returns or throws anything at each evaluation, and timers that run
\* up to MaxLate late.
NextWait ==
  \/ \E timeout \in 0..MaxTimeout, interval \in 1..MaxInterval, res \in PredResults :
       WaitForCall(timeout, interval, res)
  \/ \E res \in PredResults : TimerTick(res)
  \/ ClockTick

SpecWait == Init /\ [][NextWait]_vars

\* ---------------------------------------------------------------- claims
attachedTo(o, p) == ov[o].live = "attached" /\ ov[o].popup = p

\* C1 (SpecDetect).  Idempotent injection: however often popup p is handed
\* to injectEditorIntoPopup, by the sweep of boot or by the mutation
\* callback, with no removal of its overlay in between, p holds exactly one
\* overlay host; and a detection of a popup that already holds an overlay
\* creates nothing and leaves every overlay as it was.
C1_IdempotentInjection ==
  [][\A p \in Popups :
       /\ detected'[p] >= 1 => hostCount(ov', p) = 1
       /\ (detected'[p] > detected[p] /\ hasHost(ov, p)) => ov' = ov
    ]_vars

\* C1: popup p was detected a second time while its overlay held a title
\* the user had typed.
C1_Redetected ==
  \E p \in Popups, o \in Overlays :
    /\ detected[p] >= 2
    /\ attachedTo(o, p)
    /\ dirty(ov[o])
    /\ hostCount(ov, p) = 1

\* The step that ends a successful save attempt of overlay o (lines
\* 414-418, with markSaved).
savedStep(o) == ov[o].pc = "scrollRetry" /\ ov'[o].pc = "done"

\* C2 (Spec).  dirty() compares the title field with the baseline, and the
\* baseline is the field's value at injection or at the last markSaved:
\* right after markSaved the baseline equals the field's value and dirty()
\* is false; nothing else changes the baseline of an overlay.
C2_DirtyAndMarkSaved ==
  [][\A o \in Overlays :
       /\ savedStep(o) =>
            /\ ov'[o].baseline = ov'[o].title
            /\ ov'[o].title = ov[o].title
            /\ ~dirty(ov'[o])
       /\ (ov'[o].live = "attached" /\ ov'[o].baseline # ov[o].baseline) =>
            \/ savedStep(o)
            \/ ov[o].live = "free" /\ ov'[o].baseline = ov'[o].title
       /\ ov'[o].live = "attached" =>
            (dirty(ov'[o]) <=> ov'[o].title # ov'[o].baseline)
    ]_vars

\* C2: a save succeeded and markSaved moved the baseline to the typed title.
C2_BaselineMoved ==
  \E o \in Overlays :
    /\ ov[o].live = "attached"
    /\ ov[o].pc = "done"
    /\ ov[o].baseline = <<"b">>
    /\ ov[o].title = <<"b">>

\* C3 (Spec), as the specification states it: the save button of an overlay
\* is disabled whenever the title field's value equals the baseline or a
\* save is in progress on the overlay.  The reload handler breaks it: it
\* assigns the field without calling updateDirty.
C3_SaveDisabledWhenClean ==
  \A o \in Overlays :
    ov[o].live = "attached" =>
      ((ov[o].title = ov[o].baseline \/ inFlight(ov[o])) => ov[o].saveDisabled)

\* C4 (Spec).  A wait of the save handler that ends without its element
\* ends the attempt in Failed: the status reads 'Error: Timeout', the
\* overlay is out of the saving state (title field enabled, spinner hidden,
\* save button as dirty() says), and the attempt's steps are over: the
\* overlay leaves Failed only by a click on its enabled save button, which
\* starts a new attempt.
C4_SaveFailure ==
  [][\A o \in Overlays :
       /\ (ov[o].pc = "titleWait" /\ ov'[o].pc # "titleWait") =>
            IF Truthy(findTitleInput) THEN ov'[o].pc = "saveWait"
            ELSE ov[o].elapsed >= TitleTimeout /\ ov'[o].pc = "failed"
       /\ (ov[o].pc = "saveWait" /\ ov'[o].pc # "saveWait") =>
            IF Truthy(findSaveButton) THEN ov'[o].pc = "idleWait"
            ELSE ov[o].elapsed >= SaveTimeout /\ ov'[o].pc = "failed"
       /\ (ov[o].pc # "failed" /\ ov'[o].pc = "failed") =>
            /\ ov'[o].status = "Error: Timeout"
            /\ ~ov'[o].titleDisabled
            /\ ~ov'[o].spinner
            /\ ov'[o].saveDisabled <=> ~dirty(ov'[o])
            /\ ov'[o].watcher = "none"
       /\ (ov[o].pc = "failed" /\ ov'[o].pc # "failed") =>
            /\ ~ov[o].saveDisabled
            /\ ov'[o].pc = "titleWait"
            /\ ov'[o].elapsed = 0
            /\ turn' = o
    ]_vars

\* C4: an attempt has failed on a timeout and the overlay can be used again.
C4_Failed ==
  \E o \in Overlays :
    /\ ov[o].live = "attached"
    /\ ov[o].pc = "failed"
    /\ ov[o].status = "Error: Timeout"
    /\ ~ov[o].titleDisabled
    /\ ~ov[o].saveDisabled

settled(w) == w.pc \in {"resolved", "rejected"}

\* C5 (SpecWait), with the timers as the browser runs them.  waitFor
\* resolves with the first truthy value conditionFn returns, in the
\* evaluation that returns it; the evaluations are at least interval apart;
\* and it settles in an evaluation whose timer was due less than
\* timeout + interval after the call (the first evaluation is in the call
\* itself).
C5_WaitFor ==
  /\ wf.pc = "resolved" => wf.first # "none" /\ wf.value = wf.first
  /\ wf.first # "none" => wf.pc = "resolved"
  /\ wf.apart
  /\ settled(wf) =>
       (wf.now - wf.late) - wf.start < wf.timeout + wf.interval

\* C5, as the specification states it: the evaluations are spaced by
\* interval and waitFor settles no later than timeout + interval after the
\* call.  A timer that runs late breaks both.
C5_WithinTimeoutPlusInterval ==
  /\ wf.pc = "resolved" => wf.first # "none" /\ wf.value = wf.first
  /\ wf.exact
  /\ settled(wf) => wf.now - wf.start <= wf.timeout + wf.interval

\* C5: waitFor resolved in a later evaluation, run by a late timer.
C5_ResolvedLate ==
  /\ wf.pc = "resolved"
  /\ wf.count >= 2
  /\ wf.late > 0
  /\ wf.value \in {"v1", "v2"}

\* C6 (SpecWait).  When conditionFn throws at every evaluation, waitFor
\* rejects with the Timeout error in the first evaluation at which the
\* elapsed time has reached timeout; what conditionFn throws never reaches
\* the caller, and a tick treats a throw as it treats a falsy result.
C6_PredThrows ==
  /\ wf.pc # "raised"
  /\ (settled(wf) /\ wf.allThrow) =>
       /\ wf.pc = "rejected"
       /\ wf.value = "Timeout"
       /\ wf.now - wf.start >= wf.timeout
  /\ (wf.pc = "pending" /\ wf.allThrow) => wf.lastAt - wf.start < wf.timeout
  /\ \A elapsed \in 0..(MaxTimeout + MaxInterval), timeout \in 0..MaxTimeout :
       waitForTick("throw", elapsed, timeout) =
         waitForTick("falsy", elapsed, timeout)

\* C6: conditionFn threw at each of several evaluations and waitFor
\* rejected.
C6_RejectedAfterThrows ==
  /\ wf.pc = "rejected"
  /\ wf.allThrow
  /\ wf.count >= 2
  /\ wf.timeout > 0

\* restoreRouteSoft has just returned to the save handler of overlay o.
softReturned(o) == ov[o].pc = "routeCheck"

\* C7 (SpecSave), as far as the code goes.  restoreRouteSoft returns false,
\* with the address untouched, if and only if the address it read at the
\* call equals the snapshot; otherwise it returns true, and the address at
\* its return is what the replacement, the host's popstate listeners and
\* the host during the settle delay have left.
C7_RestoreRouteSoft ==
  \A o \in Overlays :
    softReturned(o) =>
      /\ ov[o].softRet \in {"true", "false"}
      /\ ov[o].softRet = "false" <=> ov[o].softCur = ov[o].routeSnap
      /\ ov[o].softRet = "false" => address = ov[o].softCur

\* C7, as the specification states it: when restoreRouteSoft returns true
\* the address equals the snapshot.
C7_AddressRestoredOnReturn ==
  \A o \in Overlays :
    softReturned(o) =>
      /\ ov[o].softRet = "false" <=> ov[o].softCur = ov[o].routeSnap
      /\ address = ov[o].routeSnap

\* C7: restoreRouteSoft returned true with the address back at the
\* snapshot.
C7_SoftRestored ==
  \E o \in Overlays :
    /\ softReturned(o)
    /\ ov[o].softRet = "true"
    /\ ov[o].softCur # ov[o].routeSnap
    /\ address = ov[o].routeSnap

\* The save handler of overlay o is about to read the address again (line
\* 402) and it differs from the route snapshot.
stillAway(o) ==
  /\ ov[o].pc = "routeCheck"
  /\ turn = o
  /\ address # ov[o].routeSnap

bootStep == bootPc = "start" /\ bootPc' # "start"

\* C9 (SpecSave).  On each page load boot reads the record and removes it
\* in one step, before any scroll is restored; once boot has run the
\* storage holds no record on this page, whatever the restore finds; and
\* consuming twice in a row returns nothing the second time.
C9_ConsumeOnce ==
  [][/\ bootStep =>
          /\ ss' = NoRecord
          /\ IF ss = NoRecord THEN bootPc' = "done"
             ELSE /\ bootPc' \in {"scrollerWait", "retry"}
                  /\ bootSnap'.primaryTop = JSONparse(ss).primaryTop
                  /\ bootSnap'.win = JSONparse(ss).win
                  /\ bootI' = 0
                  /\ scrollTop' = scrollTop /\ winTop' = winTop
     /\ bootPc' # "start" => ss' = NoRecord
     /\ consumePendingRestore(consumePendingRestore(ss)[2])[1] = NoRecord
    ]_vars

\* C9: the restore that follows a consumed record runs with no scroller to
\* be found, and the record is gone.
C9_ConsumedNoScroller ==
  /\ bootPc = "retry"
  /\ bootI > 0
  /\ isNumber(bootSnap.primaryTop)
  /\ ~findPrimaryCalendarScroller
  /\ ss = NoRecord

PromptSend == [kind |-> "prompt", label |-> LabelSend]

\* C10 (SpecPrompt), as the specification states it: when the host shows
\* its confirmation prompt while a prompt watcher is connected, the
\* watcher clicks the prompt's Send; and it never clicks Don't send.  A
\* visible dialog or region that comes before the prompt in the document
\* and whose text holds one of the words of line 615 breaks the first
\* part: the watcher clicks in that element.
C10_WatcherClicksSend ==
  [][/\ \A i \in 1..(MaxDialogs + 1), d \in Prompts :
          (armed(ov) /\ HostShowDialog(i, d)) => clicked' = {PromptSend}
     /\ \A c \in clicked' : c.label # LabelDontSend
    ]_vars

\* waitForCalendarIdle returns to the save handler of overlay o in this step.
idleReturns(o) ==
  ov[o].pc = "idleWait" /\ ov'[o].pc \in {"routeSettle", "routeCheck"}

\* The document changes in this step under the eyes of a body observer: a
\* popup, a dialog, the editor or the scroller comes or goes, a heading is
\* rewritten, an overlay host is added or removed.
bodyMutates ==
  \/ popupShown' # popupShown
  \/ heading' # heading
  \/ dialogs' # dialogs
  \/ editor' # editor
  \/ isNumber(scrollTop') # isNumber(scrollTop)
  \/ \E q \in Overlays :
       (ov'[q].live = "attached") # (ov[q].live = "attached")

\* C11 (SpecIdle).  waitForCalendarIdle returns true only from a check that
\* finds no quick popup, dialog or region visible and no visible progress
\* indicator above the minimum size, with at least MinQuiet sleeps gone
\* since the last mutation its observer saw (each such mutation restarts
\* the quiet period) and with less than IdleMaxWait gone since the call; a
\* check that finds otherwise sleeps again; and the first wake-up at or
\* after IdleMaxWait returns false.  It returns nothing else.
C11_CalendarIdle ==
  [][\A o \in Overlays :
       /\ idleReturns(o) =>
            /\ ov'[o].idleRet \in {"true", "false"}
            /\ ov'[o].idleRet = "true" =>
                 /\ \A p \in Popups : ~popupShown[p]
                 /\ \A k \in 1..Len(dialogs) : ~dialogs[k].visible
                 /\ \A bars \in Bars :
                      IdleTick(o, bars, TRUE, address) =>
                        \A k \in 1..Len(bars) :
                          bars[k].visible =>
                            /\ bars[k].width <= MinBarWidth
                            /\ bars[k].height <= MinBarHeight
                 /\ nextWake(ov[o]) - ov[o].last >= MinQuiet
                 /\ nextWake(ov[o]) < IdleMaxWait
            /\ ov'[o].idleRet = "false" <=> nextWake(ov[o]) >= IdleMaxWait
       /\ (ov[o].pc = "idleWait" /\ ov'[o].pc = "idleWait") =>
            IF bodyMutates
              THEN /\ ov'[o].last = nextWake(ov[o])
                   /\ ov'[o].elapsed = ov[o].elapsed
              ELSE /\ ov'[o].last = ov[o].last
                   /\ ov'[o].elapsed # ov[o].elapsed =>
                        /\ nextWake(ov[o]) < IdleMaxWait
                        /\ \E bars \in Bars :
                             /\ IdleTick(o, bars, TRUE, address)
                             /\ \/ busy(bars)
                                \/ nextWake(ov[o]) - ov[o].last < MinQuiet
    ]_vars

\* C11: waitForCalendarIdle returned true, after a mutation had restarted
\* the quiet period.
C11_IdleAfterMutation ==
  \E o \in Overlays :
    /\ ov[o].pc \in {"routeSettle", "routeCheck"}
    /\ ov[o].idleRet = "true"
    /\ ov[o].last > 0

\* An iteration of restoreCalendarScrollWithRetries runs for overlay o in
\* this step: the first one after the route check, or a later one.
restoreIteration(o) ==
  \/ ov[o].pc = "routeCheck" /\ ov'[o].pc = "scrollRetry"
  \/ ov[o].pc = "scrollRetry" /\ ov'[o].pc = "scrollRetry" /\
       ov'[o].i = ov[o].i + 1

attemptStarts(o) == ~inFlight(ov[o]) /\ ov'[o].pc = "titleWait"

KeyFallback == <<"focus", "keydown e", "keypress e", "keyup e">>

\* C13 (Spec).  A save attempt that finds no open-editor control
\* dispatches the focus and the key events of the shortcut, and no click;
\* when its wait for the title input ends without one, that is at a tick
\* with the timeout reached, the status reads 'Error: Timeout' and the
\* attempt is over: from its start to its failure it has not written the
\* host's title input, and it never reached the click on the save control.
C13_KeyboardFallback ==
  [][\A o \in Overlays :
       /\ attemptStarts(o) =>
            /\ \A opens \in BOOLEAN :
                 SaveClick(o, FALSE, opens, stays) => ov'[o].opened = KeyFallback
            /\ \A opens \in BOOLEAN :
                 SaveClick(o, TRUE, opens, stays) => ov'[o].opened = <<"click">>
            /\ editorValue' # editorValue =>
                 editorValue' = extractTitleFromPopup(heading[ov[o].popup])
       /\ (ov[o].pc = "titleWait" /\ ov[o].opened = KeyFallback) =>
            /\ ov'[o].pc \in {"titleWait", "saveWait", "failed", "idle"}
            /\ ov'[o].pc = "failed" =>
                 /\ ~Truthy(findTitleInput)
                 /\ ov[o].elapsed >= TitleTimeout
                 /\ ov'[o].status = "Error: Timeout"
                 /\ ov'[o].opened = KeyFallback
                 /\ editorValue' = editorValue
                 /\ editor' = editor
            /\ (ov'[o].pc = "titleWait" /\ ov'[o].elapsed # ov[o].elapsed) =>
                 /\ ~Truthy(findTitleInput)
                 /\ editorValue' = editorValue
            /\ ov'[o].pc = "saveWait" => Truthy(findTitleInput)
    ]_vars

\* C13: an attempt that used the keyboard fallback has failed on the wait
\* for the title input, the host's editor closed and its input untouched.
C13_FallbackTimedOut ==
  \E o \in Overlays :
    /\ ov[o].pc = "failed"
    /\ ov[o].opened = KeyFallback
    /\ ov[o].status = "Error: Timeout"
    /\ editor = 0
    /\ editorValue = <<>>

\* The restore that boot started from a consumed record is still under way:
\* it waits for the scroller or has iterations or the lock ahead of it.
restorePending == bootPc \in {"scrollerWait", "retry"}

\* C14 (SpecSave), as the specification states it: the pending restore,
\* its scroll restore included, is complete before the sweep injects an
\* overlay and before the mutation observer is attached.  boot does not
\* await attemptApplyPendingRestore: with a record in the storage the sweep
\* and the observer come first, the scroll restore later.
C14_RestoreBeforeSweep ==
  (observing \/ \E o \in Overlays : ov[o].live = "attached") => ~restorePending

\* C15 (Spec).  While a save attempt of an overlay is in flight its save
\* button is disabled, and with it the click and the Ctrl/Cmd+S shortcut,
\* which clicks the button; the title field is disabled too.  An attempt
\* starts only on an overlay with none in flight, and reload and toggle
\* during an attempt leave the attempt where it is and the button disabled.
C15_OneAttemptInFlight ==
  [][\A o \in Overlays :
       /\ inFlight(ov'[o]) => ov'[o].saveDisabled /\ ov'[o].titleDisabled
       /\ (ov'[o].pc = "titleWait" /\ ov'[o].elapsed = 0 /\ turn' = o) =>
            \/ ~inFlight(ov[o])
            \/ ov'[o] = ov[o]
       /\ inFlight(ov[o]) =>
            \A found \in BOOLEAN, opens \in BOOLEAN : ~SaveClick(o, found, opens, stays)
       /\ (inFlight(ov[o]) /\ (Reload(o) \/ Toggle(o))) =>
            /\ ov'[o].pc = ov[o].pc
            /\ ov'[o].elapsed = ov[o].elapsed
            /\ ov'[o].i = ov[o].i
            /\ ov'[o].routeSnap = ov[o].routeSnap
            /\ ov'[o].scrollSnap = ov[o].scrollSnap
            /\ ov'[o].saveDisabled
    ]_vars

\* C15: the user reloaded the title during a save attempt, the field now
\* differs from the baseline, and the save button is still disabled.
C15_ReloadedInFlight ==
  \E o \in Overlays :
    /\ inFlight(ov[o])
    /\ ov[o].status = StatusReloaded
    /\ dirty(ov[o])
    /\ ov[o].saveDisabled

\* A step of the restore that boot started: an iteration of
\* restoreCalendarScrollWithRetries or, after the last, line 599.
bootRestoreStep ==
  /\ bootPc = "retry"
  /\ \/ bootPc' = "retry" /\ bootI' = bootI + 1
     \/ bootPc' = "done"

\* C16 (SpecSave).  The scroll snapshot of a save attempt has primaryTop
\* null exactly when no primary scroller is found as it is taken, and the
\* scroller's offset otherwise; the record keeps a null through the
\* storage; and no step of a restore whose snapshot has primaryTop null
\* writes the scroller's offset or starts a scroll lock: the iterations of
\* restoreCalendarScrollWithRetries and the end of the save attempt, which
\* succeeds, as well as the iterations and the end of the restore at boot.
C16_NullPrimaryTop ==
  [][/\ \A o \in Overlays :
          /\ attemptStarts(o) =>
               /\ ov'[o].scrollSnap.primaryTop = NullTop
                    <=> ~findPrimaryCalendarScroller
               /\ ov'[o].scrollSnap.primaryTop = scrollTop
          /\ ((restoreIteration(o) \/ savedStep(o)) /\
                ov[o].scrollSnap.primaryTop = NullTop) =>
               /\ scrollTop' = scrollTop
               /\ locks' = locks
          /\ (ov[o].pc = "scrollRetry" /\ ov[o].scrollSnap.primaryTop = NullTop)
               => ov'[o].pc \in {"scrollRetry", "done", "idle"}
     /\ (bootStep /\ ss # NoRecord) =>
          (bootSnap'.primaryTop = NullTop <=> JSONparse(ss).primaryTop = NullTop)
     /\ (bootRestoreStep /\ bootSnap.primaryTop = NullTop) =>
          /\ scrollTop' = scrollTop
          /\ locks' = locks
    ]_vars

\* C16: the restore at boot, from a record with primaryTop null, has run
\* its iterations on a page that has a primary scroller.
C16_NullRestoredAtBoot ==
  /\ bootPc = "retry"
  /\ bootI = BootTries
  /\ bootSnap.primaryTop = NullTop
  /\ isNumber(scrollTop)

\* C17 (Spec), as the specification states it: reload leaves in the title
\* field the title read from the popup, whatever it is, and leaves the
\* baseline alone.  With an empty title read from the popup the handler
\* keeps the field's value (`|| ui.title.value', line 353).
C17_ReloadReplacesTitle ==
  [][\A o \in Overlays :
       Reload(o) =>
         /\ ov'[o].title = extractTitleFromPopup(heading[ov[o].popup])
         /\ ov'[o].baseline = ov[o].baseline
    ]_vars

\* What a sweep or a batch over the popups ps must leave when
\* injectEditorIntoPopup throws on the popups of broken: one overlay in
\* each other popup of ps, the popups of broken as they were, the overlays
\* that existed untouched, and the observer attached.
contained(ps, broken) ==
  /\ \A p \in ps \ broken : hostCount(ov', p) = 1
  /\ \A p \in ps \cap broken : hostCount(ov', p) = hostCount(ov, p)
  /\ \A o \in Overlays : ov[o].live = "attached" => ov'[o] = ov[o]
  /\ observing'

\* C18 (SpecContain).  An injection that throws is caught where it is
\* called: the sweep of boot and every batch of the mutation observer give
\* each other popup they find its overlay, leave the existing overlays as
\* they are, and leave the observer attached, which stays so for the life
\* of the page; the batches that follow are processed the same way.
C18_FailureContained ==
  [][/\ bootStep =>
          \A broken \in SUBSET findQuickPopupDialogs :
            boot(broken) => contained(findQuickPopupDialogs, broken)
     /\ (observing /\ popupShown' = popupShown) =>
          \A ps \in SUBSET findQuickPopupDialogs :
            \A broken \in SUBSET ps :
              HostReattach(ps, broken) => contained(ps, broken)
     /\ (observing /\ popupShown' # popupShown) =>
          \A p \in Popups, h \in {HeadingA, NoHeading} :
            HostInsert(p, h, TRUE) => contained({p}, {})
     /\ (observing /\ bootPc' # "start") => observing'
    ]_vars

\* C18: the injection into one popup threw (the popup was handed over and
\* has no overlay), another popup has its overlay, and the observer is
\* attached.
C18_OneThrewOtherInjected ==
  \E p \in Popups, q \in Popups :
    /\ p # q
    /\ popupShown[p] /\ detected[p] >= 1 /\ ~hasHost(ov, p)
    /\ popupShown[q] /\ detected[q] >= 1 /\ hostCount(ov, q) = 1
    /\ observing

\* The two snapshots a save attempt holds.
snapshotsOf(u) == [routeSnap |-> u.routeSnap, scrollSnap |-> u.scrollSnap]

\* C19 (SpecSnap).  The snapshots of a save attempt are those of the page
\* as it was when the attempt started, before the host handled the click or
\* the key events that open the editor; the attempt holds them unchanged
\* while it runs; the soft route restore acts exactly when the address
\* differs from that route snapshot, and the hard navigation goes to that
\* route snapshot and stores it with the scroll snapshot.
C19_SnapshotsBeforeInteraction ==
  [][\A o \in Overlays :
       /\ attemptStarts(o) =>
            snapshotsOf(ov'[o]) =
              [routeSnap |-> address,
               scrollSnap |-> [primaryTop |-> scrollTop, win |-> winTop]]
       /\ (inFlight(ov[o]) /\ inFlight(ov'[o])) =>
            snapshotsOf(ov'[o]) = snapshotsOf(ov[o])
       /\ (ov[o].pc = "idleWait" /\ ov'[o].pc \in {"routeSettle", "routeCheck"}) =>
            (ov'[o].pc = "routeSettle") = (address # ov[o].routeSnap)
       /\ (ov[o].pc = "routeCheck" /\ turn = o /\ turn' = 0
              /\ address # ov[o].routeSnap) =>
            /\ address' = ov[o].routeSnap
            /\ ss' = JSONstringify([url |-> ov[o].routeSnap,
                                    primaryTop |-> ov[o].scrollSnap.primaryTop,
                                    win |-> ov[o].scrollSnap.win])
            /\ bootPc' = "start"
    ]_vars

\* witness of C19: the host left another address and another scroll
\* position than the ones the attempt captured, and the soft restore has
\* brought the address back to the captured one.
C19_RouteBackToSnapshot ==
  \E o \in Overlays :
    /\ ov[o].pc = "routeCheck"
    /\ ov[o].softRet = "true"
    /\ ov[o].softCur # ov[o].routeSnap
    /\ address = ov[o].routeSnap
    /\ scrollTop # ov[o].scrollSnap.primaryTop

\* The positions a save attempt may be at after a step that found it at
\* pc: where it was, or the next await of the handler (restoreRouteSoft
\* returns without sleeping when the address equals the snapshot), or its
\* catch; "idle" is the overlay's record given up.
stepsAfter(pc) ==
  {pc, "idle"} \cup
  CASE pc = "titleWait" -> {"saveWait", "failed"}
    [] pc = "saveWait" -> {"idleWait", "failed"}
    [] pc = "idleWait" -> {"routeSettle", "routeCheck"}
    [] pc = "routeSettle" -> {"routeCheck"}
    [] pc = "routeCheck" -> {"scrollRetry", "assigned"}
    [] pc = "scrollRetry" -> {"done"}
    [] OTHER -> {"titleWait"}

\* C20 (SpecSave).  The steps of a save attempt follow one another in the
\* handler's order.  The host's title input is written by an attempt only
\* in the step that found it; the save control is clicked only from the
\* wait that follows that write, with the written title still in the
\* input; the prompt watcher is armed only in the step that clicked the
\* save control; the route restore starts only in the step in which the
\* idle wait returned; the scroll restore starts only from the check that
\* read an address equal to the route snapshot.
C20_StepsInOrder ==
  [][\A o \in Overlays :
       /\ ov'[o].pc \in stepsAfter(ov[o].pc)
       /\ (editorValue' # editorValue /\ editor # 0 /\ editor' = editor) =>
            \E q \in Overlays :
              /\ ov[q].pc = "titleWait" /\ ov'[q].pc = "saveWait"
              /\ findTitleInput = "input"
              /\ editorValue' = ov[q].title
       /\ (ov[o].pc = "saveWait" /\ ov'[o].pc = "idleWait") =>
            /\ ov[o].status = StatusSaving
            /\ findSaveButton = "button"
            /\ editorValue = ov[o].title
       /\ (ov'[o].watcher = "armed") =>
            \/ ov[o].watcher = "armed"
            \/ ov[o].pc = "saveWait" /\ ov'[o].pc = "idleWait"
       /\ (ov[o].pc \in {"titleWait", "saveWait"}) => ov[o].watcher = "none"
       /\ (ov[o].pc = "idleWait"
              /\ ov'[o].pc \in {"routeSettle", "routeCheck"}) =>
            /\ ov'[o].idleRet \in {"true", "false"}
            /\ ov'[o].watcher = "off"
            /\ ov'[o].status = StatusRestoring
       /\ (ov[o].pc \in {"titleWait", "saveWait", "idleWait"}) =>
            ov[o].softRet = Null
       /\ (ov'[o].pc = "scrollRetry" /\ ov[o].pc # "scrollRetry") =>
            /\ ov[o].pc = "routeCheck"
            /\ address = ov[o].routeSnap
            /\ address' = address
    ]_vars

\* witness of C20: an attempt that has been through every step up to the
\* last iteration of the scroll restore, the soft route restore included.
C20_ReachedScrollRestore ==
  \E o \in Overlays :
    /\ ov[o].pc = "scrollRetry"
    /\ ov[o].i = ScrollTries
    /\ ov[o].softRet = "true"
    /\ ov[o].idleRet # "none"
    /\ ov[o].watcher = "off"
    /\ editorValue = ov[o].title

\* C21 (SpecSave).  An overlay's baseline changes, and its status becomes
\* 'Saved', only in the step that ends an attempt after the last iteration
\* of the scroll restore, which the attempt reached with the save control
\* clicked, the idle wait returned and the address read equal to the
\* snapshot; a step that ends an attempt in its catch, and the hard
\* navigation, leave the baseline as it was and show no 'Saved'.
C21_SavedOnlyAtDone ==
  [][\A o \in Overlays :
       /\ (ov[o].live # "free" /\ ov'[o].live # "free"
              /\ (ov'[o].baseline # ov[o].baseline
                    \/ (ov'[o].status = StatusSaved
                          /\ ov[o].status # StatusSaved))) =>
            /\ ov[o].pc = "scrollRetry" /\ ov[o].i = ScrollTries
            /\ ov'[o].pc = "done"
            /\ ov[o].idleRet # "none" /\ ov[o].watcher = "off"
            /\ ov[o].softCur # Null
            /\ ov'[o].baseline = ov[o].title
            /\ ov'[o].status = StatusSaved
       /\ (inFlight(ov[o]) /\ ov'[o].pc = "failed") =>
            /\ ov'[o].baseline = ov[o].baseline
            /\ ov'[o].status # StatusSaved
       /\ (ov[o].pc = "routeCheck" /\ turn = o
              /\ address # ov[o].routeSnap) =>
            /\ ov'[o].pc # "done"
            /\ ov'[o].status # StatusSaved
    ]_vars

\* witness of C21: an attempt has ended in Done with the typed title as the
\* new baseline.
C21_MarkedSaved ==
  \E o \in Overlays :
    /\ ov[o].pc = "done"
    /\ ov[o].status = StatusSaved
    /\ ov[o].baseline = <<"b">>
    /\ ~dirty(ov[o])
    /\ ~ov[o].titleDisabled

\* C22 (SpecWatch).  The step in which an attempt's idle wait returns
\* (true or false) leaves its prompt watcher disconnected, and so does the
\* watcher's own timer; a disconnected watcher stays so for the rest of the
\* attempt; a step taken while no watcher is connected clicks nothing; and
\* every connected watcher is disconnected at some later time.
C22_WatcherBounded ==
  /\ [][\A o \in Overlays :
          /\ (ov[o].pc = "idleWait" /\ ov'[o].pc # "idleWait") =>
               ov'[o].watcher # "armed"
          /\ WatcherExpire(o) => ov'[o].watcher = "off"
          /\ (ov[o].watcher = "off") => ov'[o].watcher \in {"off", "none"}
          /\ (ov[o].watcher = "armed") => ov[o].pc = "idleWait"
          /\ ~armed(ov) => clicked' = clicked
       ]_vars
  /\ \A o \in Overlays :
       (ov[o].watcher = "armed") ~> (ov[o].watcher # "armed")

\* witness of C22: the watcher's timer has disconnected it while the idle
\* wait of its attempt still runs, with a prompt on the page it clicked
\* when it was connected.
C22_ExpiredBeforeIdle ==
  \E o \in Overlays :
    /\ ov[o].pc = "idleWait"
    /\ ov[o].watcher = "off"
    /\ clicked # {}
    /\ findUpdatePromptDialog(dialogs) # <<>>

\* C23 (SpecScroll), as the specification states it: a lock's periodic
\* tick is cancelled at the latest by the first tick that runs when the
\* duration has passed, so no tick of a lock runs after that one (and none
\* writes a scroll offset): every tick that runs still has the duration, or
\* its first tick past it, ahead.
C23_LockBounded ==
  [][\A l \in locks : LockTick(l) => l.left > 0]_vars

\* C24 (SpecTwo), as the specification states it: an attempt writes its
\* overlay's title only into the title input of the editor the host opened
\* for the attempt's own popup, and clicks the save control of that editor
\* only.
C24_OwnEditorOnly ==
  [][\A o \in Overlays :
       /\ (ov[o].pc = "titleWait" /\ ov'[o].pc = "saveWait") =>
            editor = ov[o].popup
       /\ (ov[o].pc = "saveWait" /\ ov'[o].pc = "idleWait") =>
            editor = ov[o].popup
    ]_vars

\* The overlay shows the saving state of setSaving(true).
saving(u) == u.spinner /\ u.titleDisabled /\ u.saveDisabled

\* C25 (SpecHash), as the specification states it: every attempt ends, and
\* no overlay stays in the saving state forever while its page stays
\* loaded: an overlay that is saving is, at some later time, not saving
\* (or gone with its page).
C25_AttemptTerminates ==
  \A o \in Overlays :
    /\ inFlight(ov[o]) ~> ~inFlight(ov[o])
    /\ saving(ov[o]) ~> ~saving(ov[o])

\* The part of C25 that holds: every attempt ends, in Done, in Failed or
\* with location.assign.
attemptEnds == \A o \in Overlays : inFlight(ov[o]) ~> ~inFlight(ov[o])

\* C26 (Spec), as the specification states it: the step that ends an
\* attempt in Done leaves as the overlay's baseline the title the attempt
\* wrote into the host's title input.
C26_BaselineIsWritten ==
  [][\A o \in Overlays :
       (savedStep(o) /\ ov'[o].live # "free") =>
         ov'[o].baseline = ov[o].wrote]_vars

\* The statuses a save attempt sets while it runs and in its catch.
attemptStatus(s) ==
  s \in {StatusOpening, StatusUpdating, StatusSaving, StatusRestoring,
         ErrorStatus(TimeoutMessage)}

\* C27 (Spec), as the specification states it: a status-clear timer of
\* reload or of an earlier save, when it fires, does not erase a status
\* that a save attempt has set.
C27_StatusNotErased ==
  [][\A o \in Overlays :
       StatusClear(o) => ~attemptStatus(ov[o].status)]_vars

=============================================================================
